---------------------------- MODULE Spec2Model ----------------------------
(***************************************************************************)
(* A model of the device-file reconciliation engine of nvidia-modprobe:    *)
(* the device node reconciler (mknod_helper, symlink_char_dev,             *)
(* get_file_state_helper, init_device_file_parameters) and the module      *)
(* loader (modprobe_helper, is_kernel_module_loaded, pci_enum_match_id).   *)
(*                                                                         *)
(* Strings are TLA+ strings; a character is read with SubSeq(s, i, i).     *)
(* File modes are naturals (0666 = 438), combined with BitAnd / BitOr.     *)
(***************************************************************************)
EXTENDS Integers, Sequences, FiniteSets, TLC

VARIABLES
    fs,        \* device directory: path -> inode record (the node at the path)
    links,     \* /dev/char: link path -> what is there
    params,    \* contents of the policy source /proc/driver/nvidia/params
    proc,      \* the calling process: its file mode creation mask and group id
    last,      \* the most recent nvidia_mknod call: arguments, syscalls, result
    prev,      \* summary of the call before it
    mtab,      \* /proc/modules: the sequence of module-name tokens, one per line
    host,      \* the rest of the machine the loader reads: euid, PCI bus, SoC
               \* family file, modprobe path file, loader executable, SIGCHLD
    lm,        \* the running modprobe_helper call: position, arguments, result
    child,     \* the forked loader child: "none", "running", "exited"
    events,    \* what the modprobe_helper call has done so far, in order
    calc,      \* one library function under evaluation: which one, the input
               \* it is given and, once it has run, what it returned
    run,       \* one run of the program: its command line, where main is,
               \* ret, the library calls made so far and the exit code
    callers    \* the processes inside mknod_helper at the same time: for each
               \* its position, what it observed, do_mknod and its result

nodeVars == <<fs, links, params, proc, last, prev>>
loadVars == <<mtab, host, lm, child, events>>
calcVars == <<calc>>
mainVars == <<run>>
concVars == <<callers>>
vars == <<fs, links, params, proc, last, prev, mtab, host, lm, child, events, calc, run,
          callers>>

---------------------------------------------------------------------------
(* Bounds of the model *)

\* inode numbers the device filesystem hands out: 1..MaxIno
MaxIno == 2
\* injected syscall failures per reconcile call
MaxFaults == 2

---------------------------------------------------------------------------
(* Program constants *)

NV_CTL_DEVICE_NUM == 255
NV_MAJOR_DEVICE_NUMBER == 195
NV_MAX_CHARACTER_DEVICE_FILE_STRLEN == 128
\* S_IRWXU|S_IRWXG|S_IRWXO = 0777
NV_DEVICE_FILE_MODE_MASK == 511
\* S_IRUSR|S_IWUSR|S_IRGRP|S_IWGRP|S_IROTH|S_IWOTH = 0666
NV_DEVICE_FILE_MODE == 438
NV_DEVICE_FILE_UID == 0
NV_DEVICE_FILE_GID == 0
NV_DEV_PATH == "/dev/"
NV_PROC_REGISTRY_PATH == "/proc/driver/nvidia/params"

\* the file-state flags, as bit numbers
NvDeviceFileStateFileExists == 0
NvDeviceFileStateChrDevOk == 1
NvDeviceFileStatePermissionsOk == 2

---------------------------------------------------------------------------
(* Integer helpers: the C bit operators on naturals *)

RECURSIVE BitAnd(_, _)
BitAnd(a, b) ==
    IF a = 0 \/ b = 0 THEN 0
    ELSE (IF a % 2 = 1 /\ b % 2 = 1 THEN 1 ELSE 0) + 2 * BitAnd(a \div 2, b \div 2)

RECURSIVE BitOr(_, _)
BitOr(a, b) ==
    IF a = 0 THEN b
    ELSE IF b = 0 THEN a
    ELSE (IF a % 2 = 1 \/ b % 2 = 1 THEN 1 ELSE 0) + 2 * BitOr(a \div 2, b \div 2)

\* a & ~b
BitAndNot(a, b) == a - BitAnd(a, b)

Pow2(n) == IF n = 0 THEN 1 ELSE 2 ^ n

\* (minor & 0xff) | (major << 8) | ((minor & ~0xff) << 12)
NV_MAKE_DEVICE(major, minor) ==
    BitOr(BitOr(BitAnd(minor, 255), major * Pow2(8)),
          BitAndNot(minor, 255) * Pow2(12))

nvidia_update_file_state(state, value) == BitOr(state, Pow2(value))
nvidia_test_file_state(state, value) == BitAnd(state, Pow2(value)) # 0

---------------------------------------------------------------------------
(* Strings *)

\* strncmp(s, prefix, strlen(prefix)) == 0
HasPrefix(s, prefix) ==
    /\ Len(s) >= Len(prefix)
    /\ SubSeq(s, 1, Len(prefix)) = prefix

\* s + n in C: the string from its (n+1)-th character on
StrFrom(s, n) == SubSeq(s, n + 1, Len(s))

---------------------------------------------------------------------------
(* Path builders *)

\* nvidia-modprobe-utils.h: "" (name[0] = '\0') for a minor outside 0..255,
\* the control path for 255, the numbered path otherwise
assign_device_file_name(minor) ==
    IF (minor < 0) \/ (minor > NV_CTL_DEVICE_NUM) THEN ""
    ELSE IF minor = NV_CTL_DEVICE_NUM THEN "/dev/nvidiactl"
    ELSE "/dev/nvidia" \o ToString(minor)

\* snprintf(symlink_path, ..., NV_CHAR_DEVICE_NAME, major, minor)
CharDevName(major, minor) == "/dev/char/" \o ToString(major) \o ":" \o ToString(minor)

---------------------------------------------------------------------------
(* The policy source and init_device_file_parameters *)

\* A policy source is unreadable (fopen fails) or a sequence of items. An item
\* is what one fscanf("%31[^:]: %u\n") directive meets next in the file:
\*   form "kv"     : text without ':' , then ':' , then an unsigned number
\*   form "nonnum" : text, ':' , then something that is no number
\*   form "nocolon": a line of text holding no ':' at all
NoSource == [readable |-> FALSE, items |-> <<>>]
Source(items) == [readable |-> TRUE, items |-> items]
KV(name, value) == [form |-> "kv", name |-> name, value |-> value]
NonNum(name) == [form |-> "nonnum", name |-> name, value |-> 0]
NoColon(text) == [form |-> "nocolon", name |-> text, value |-> 0]

DefaultPolicy ==
    [uid |-> NV_DEVICE_FILE_UID, gid |-> NV_DEVICE_FILE_GID,
     mode |-> NV_DEVICE_FILE_MODE, modify |-> 1]

\* the loop body with one spelling of the modify field only
ApplyField_OneSpelling(pol, name, value) ==
    LET p1 == IF name = "DeviceFileUID" THEN [pol EXCEPT !.uid = value] ELSE pol
        p2 == IF name = "DeviceFileGID" THEN [p1 EXCEPT !.gid = value] ELSE p1
        p3 == IF name = "DeviceFileMode" THEN [p2 EXCEPT !.mode = value] ELSE p2
    IN IF name = "ModifyDeviceFiles" THEN [p3 EXCEPT !.modify = value] ELSE p3

\* the four strcmp tests of the loop body, applied to one (name, value)
ApplyField(pol, name, value) ==
    LET p1 == IF name = "DeviceFileUID" THEN [pol EXCEPT !.uid = value] ELSE pol
        p2 == IF name = "DeviceFileGID" THEN [p1 EXCEPT !.gid = value] ELSE p1
        p3 == IF name = "DeviceFileMode" THEN [p2 EXCEPT !.mode = value] ELSE p2
        p4 == IF (name = "ModifyDeviceFiles") \/ (name = "DeviceFileModify")
              THEN [p3 EXCEPT !.modify = value] ELSE p3
    IN p4

\* The while loop: fscanf returns 2 and the body runs, or the loop ends.
\* %31[^:] also consumes newlines, so a line without ':' becomes the head of
\* the next item's name; a name longer than 31 characters is cut and the ':'
\* is then not found; a value that is no number ends the loop.
RECURSIVE ScanPolicy(_, _, _, _)
ScanPolicy(items, i, carried, pol) ==
    IF i > Len(items) THEN pol
    ELSE LET it == items[i]
             name == carried \o it.name
         IN IF it.form = "nocolon" THEN ScanPolicy(items, i + 1, name \o "\n", pol)
            ELSE IF Len(name) > 31 \/ Len(name) = 0 THEN pol
            ELSE IF it.form = "nonnum" THEN pol
            ELSE ScanPolicy(items, i + 1, "", ApplyField(pol, name, it.value))

init_device_file_parameters(src) ==
    IF ~src.readable THEN DefaultPolicy
    ELSE ScanPolicy(src.items, 1, "", DefaultPolicy)

---------------------------------------------------------------------------
(* The filesystem: what the syscalls the reconciler makes do *)

NoNode == [kind |-> "none", rdev |-> 0, mode |-> 0, uid |-> 0, gid |-> 0, ino |-> 0]
NoLink == [kind |-> "none", to |-> "", ino |-> 0]

\* A world is the filesystem a call works on, the return code of the last
\* syscall (rc), the trace of mutating syscalls made so far (tr), the number
\* of them the environment made fail (nf) and the call's result (ret).
World(f, l) == [fs |-> f, links |-> l, rc |-> 0, tr |-> <<>>, nf |-> 0, ret |-> 0]

Logged(w, op, path, ok, inj) ==
    Append(w.tr, [op |-> op, path |-> path, ok |-> ok, inj |-> inj])

\* The outcomes of one mutating syscall, as a set of worlds: when the call
\* can succeed (possible) it succeeds, giving wOk, or the environment makes it
\* fail (EPERM, EROFS, ...), which is counted; when it cannot, it fails.
Outcomes(w, op, path, possible, wOk) ==
    IF ~possible
    THEN {[w EXCEPT !.rc = -1, !.tr = Logged(w, op, path, FALSE, FALSE)]}
    ELSE {[wOk EXCEPT !.rc = 0, !.tr = Logged(w, op, path, TRUE, FALSE)]}
         \cup (IF w.nf < MaxFaults
               THEN {[w EXCEPT !.rc = -1, !.nf = w.nf + 1,
                               !.tr = Logged(w, op, path, FALSE, TRUE)]}
               ELSE {})

\* what follows a syscall: K applied to each of its outcomes
Then(S, K(_)) == UNION {K(x) : x \in S}

\* where a symbolic link at /dev/char/<x> with contents `to` leads
LinkTargetPath(to) == IF HasPrefix(to, "../") THEN NV_DEV_PATH \o StrFrom(to, 3) ELSE to

\* stat(2), following symbolic links
sys_stat(w, path) ==
    LET viaLink == path \in DOMAIN w.links
        l == IF viaLink THEN w.links[path] ELSE NoLink
        target == IF viaLink THEN LinkTargetPath(l.to) ELSE path
        n == IF viaLink /\ l.kind = "none" THEN NoNode
             ELSE IF target \in DOMAIN w.fs THEN w.fs[target]
             ELSE IF viaLink /\ l.ino # 0
                  THEN [kind |-> "reg", rdev |-> 0, mode |-> 420, uid |-> 0,
                        gid |-> 0, ino |-> l.ino]
             ELSE NoNode
    IN [ok |-> n.kind # "none", node |-> n]

\* remove(3) of a node or of a link (the link itself, never its target)
sys_remove(w, path, op) ==
    LET isLink == path \in DOMAIN w.links
        there == IF isLink THEN w.links[path].kind # "none"
                 ELSE path \in DOMAIN w.fs /\ w.fs[path].kind # "none"
    IN Outcomes(w, op, path, there,
                IF isLink THEN [w EXCEPT !.links[path] = NoLink]
                ELSE [w EXCEPT !.fs[path] = NoNode])

\* inode numbers no file of the device directory uses
FreeInos(w) == (1..MaxIno) \ {w.fs[p].ino : p \in DOMAIN w.fs}

\* mknod(path, S_IFCHR | mode, dev): the permission bits are cut by the umask,
\* the owner is the caller (root, with the caller's group), the inode is new
sys_mknod(w, path, mode, dev, pr) ==
    LET free == path \in DOMAIN w.fs /\ w.fs[path].kind = "none"
        n(ino) == [kind |-> "chr", rdev |-> dev,
                   mode |-> BitAndNot(mode % 4096, pr.umask),
                   uid |-> 0, gid |-> pr.egid, ino |-> ino]
    IN UNION {Outcomes(w, "mknod", path, free, [w EXCEPT !.fs[path] = n(ino)]) :
              ino \in FreeInos(w)}

sys_chmod(w, path, mode) ==
    LET there == path \in DOMAIN w.fs /\ w.fs[path].kind # "none"
    IN Outcomes(w, "chmod", path, there, [w EXCEPT !.fs[path].mode = mode % 4096])

sys_chown(w, path, uid, gid) ==
    LET there == path \in DOMAIN w.fs /\ w.fs[path].kind # "none"
    IN Outcomes(w, "chown", path, there,
                [w EXCEPT !.fs[path].uid = uid, !.fs[path].gid = gid])

\* symlink(target, linkpath): fails when something is at linkpath already
sys_symlink(w, target, linkpath) ==
    LET free == linkpath \in DOMAIN w.links /\ w.links[linkpath].kind = "none"
    IN Outcomes(w, "symlink", linkpath, free,
                [w EXCEPT !.links[linkpath] = [kind |-> "sym", to |-> target, ino |-> 0]])

\* the call returns r
Return(w, r) == {[w EXCEPT !.ret = r]}

---------------------------------------------------------------------------
(* The device node reconciler.  Every operator gives the set of worlds the  *)
(* code can end in, one per way its syscalls can turn out.                  *)

\* get_file_state_helper that never sets the permissions flag
get_file_state_helper_NoPermFlag(w, path, major, minor, uid, gid, mode) ==
    LET dev == NV_MAKE_DEVICE(major, minor)
        st == sys_stat(w, path)
        s1 == IF st.ok THEN nvidia_update_file_state(0, NvDeviceFileStateFileExists)
              ELSE 0
    IN IF st.ok /\ st.node.kind = "chr" /\ st.node.rdev = dev
       THEN nvidia_update_file_state(s1, NvDeviceFileStateChrDevOk) ELSE s1

get_file_state_helper(w, path, major, minor, uid, gid, mode) ==
    LET dev == NV_MAKE_DEVICE(major, minor)
        st == sys_stat(w, path)
        s0 == 0
        s1 == IF st.ok THEN nvidia_update_file_state(s0, NvDeviceFileStateFileExists)
              ELSE s0
        s2 == IF st.ok /\ st.node.kind = "chr" /\ st.node.rdev = dev
              THEN nvidia_update_file_state(s1, NvDeviceFileStateChrDevOk) ELSE s1
        s3 == IF st.ok /\ BitAnd(st.node.mode, NV_DEVICE_FILE_MODE_MASK) = mode
                       /\ st.node.uid = uid /\ st.node.gid = gid
              THEN nvidia_update_file_state(s2, NvDeviceFileStatePermissionsOk) ELSE s2
    IN s3

\* the check made after symlink(): a failure is forgiven when the link is
\* there and leads to the inode of the device
LinkVerdict(w, symlink_path, dev_status) ==
    LET link_status == sys_stat(w, symlink_path)
    IN IF w.rc < 0 /\ (~link_status.ok \/ link_status.node.ino # dev_status.node.ino)
       THEN Return(w, 0)
       ELSE Return(w, 1)

\* Symbolically link /dev/char/<major>:<minor> to the device node.
symlink_char_dev(w0, major, minor, dev_path) ==
    LET w == [w0 EXCEPT !.tr = Logged(w0, "symlink_char_dev", dev_path, TRUE, FALSE)]
        symlink_path == CharDevName(major, minor)
        dev_status == sys_stat(w0, dev_path)
        dev_rel_path == "../" \o StrFrom(dev_path, Len(NV_DEV_PATH))
    IN IF Len(symlink_path) >= NV_MAX_CHARACTER_DEVICE_FILE_STRLEN THEN Return(w, 0)
       ELSE IF ~dev_status.ok \/ dev_status.node.kind # "chr" THEN Return(w, 0)
       ELSE IF ~HasPrefix(dev_path, NV_DEV_PATH) THEN Return(w, 0)
       ELSE IF Len(dev_rel_path) >= NV_MAX_CHARACTER_DEVICE_FILE_STRLEN THEN Return(w, 0)
       ELSE Then(sys_remove(w, symlink_path, "unlink"), LAMBDA w1 :
            Then(sys_symlink(w1, dev_rel_path, symlink_path), LAMBDA w2 :
            LinkVerdict(w2, symlink_path, dev_status)))

\* the rollback: remove(path), its result ignored
Rollback(w, path) == Then(sys_remove(w, path, "rollback"), LAMBDA w1 : Return(w1, 0))

\* FixPermissions that removes the node on failure whoever created it
FixPermissions_AlwaysRollback(w, major, minor, path, pol, do_mknod) ==
    Then(sys_chmod(w, path, pol.mode), LAMBDA w1 :
    Then(IF w1.rc # 0 THEN {w1} ELSE sys_chown(w1, path, pol.uid, pol.gid), LAMBDA w2 :
        IF w2.rc # 0 THEN Rollback(w2, path)
        ELSE symlink_char_dev(w2, major, minor, path)))

\* FixPermissions that trusts the mode mknod was given and skips chmod
FixPermissions_NoChmod(w, major, minor, path, pol, do_mknod) ==
    Then(sys_chown(w, path, pol.uid, pol.gid), LAMBDA w2 :
        IF w2.rc # 0
        THEN IF do_mknod = 1 THEN Rollback(w2, path) ELSE Return(w2, 0)
        ELSE symlink_char_dev(w2, major, minor, path))

\* the tail of mknod_helper: chmod, chown, the rollback and the symlink step
FixPermissions(w, major, minor, path, pol, do_mknod) ==
    Then(sys_chmod(w, path, pol.mode), LAMBDA w1 :
    Then(IF w1.rc # 0 THEN {w1} ELSE sys_chown(w1, path, pol.uid, pol.gid), LAMBDA w2 :
        IF w2.rc # 0
        THEN IF do_mknod = 1 THEN Rollback(w2, path) ELSE Return(w2, 0)
        ELSE symlink_char_dev(w2, major, minor, path)))

\* CreateOrFix that replaces every node it finds, the right device included
CreateOrFix_AlwaysRecreate(w, major, minor, path, pol, state, pr) ==
    LET dev == NV_MAKE_DEVICE(major, minor)
        exists == nvidia_test_file_state(state, NvDeviceFileStateFileExists)
        removing == exists
    IN Then(IF removing THEN sys_remove(w, path, "remove") ELSE {w}, LAMBDA w1 :
           IF removing /\ w1.rc # 0 THEN Return(w1, 0)
           ELSE Then(sys_mknod(w1, path, pol.mode, dev, pr), LAMBDA w2 :
                    IF w2.rc # 0 THEN Return(w2, 0)
                    ELSE FixPermissions(w2, major, minor, path, pol, 1)))

\* CreateOrFix that does not look at the result of remove(path)
CreateOrFix_IgnoresRemoveFailure(w, major, minor, path, pol, state, pr) ==
    LET dev == NV_MAKE_DEVICE(major, minor)
        exists == nvidia_test_file_state(state, NvDeviceFileStateFileExists)
        chrOk == nvidia_test_file_state(state, NvDeviceFileStateChrDevOk)
        removing == exists /\ ~chrOk
        do_mknod == IF ~exists \/ removing THEN 1 ELSE 0
    IN Then(IF removing THEN sys_remove(w, path, "remove") ELSE {w}, LAMBDA w1 :
       Then(IF do_mknod = 1 THEN sys_mknod(w1, path, pol.mode, dev, pr) ELSE {w1},
            LAMBDA w2 :
                IF do_mknod = 1 /\ w2.rc # 0 THEN Return(w2, 0)
                ELSE FixPermissions(w2, major, minor, path, pol, do_mknod)))

\* from "do_mknod = 0" on: remove a conflicting node, create, fix permissions
CreateOrFix(w, major, minor, path, pol, state, pr) ==
    LET dev == NV_MAKE_DEVICE(major, minor)
        exists == nvidia_test_file_state(state, NvDeviceFileStateFileExists)
        chrOk == nvidia_test_file_state(state, NvDeviceFileStateChrDevOk)
        do_mknod0 == IF ~exists THEN 1 ELSE 0
        removing == do_mknod0 = 0 /\ ~chrOk
        do_mknod == IF removing THEN 1 ELSE do_mknod0
    IN Then(IF removing THEN sys_remove(w, path, "remove") ELSE {w}, LAMBDA w1 :
           IF removing /\ w1.rc # 0 THEN Return(w1, 0)
           ELSE Then(IF do_mknod = 1 THEN sys_mknod(w1, path, pol.mode, dev, pr)
                     ELSE {w1}, LAMBDA w2 :
                    IF do_mknod = 1 /\ w2.rc # 0 THEN Return(w2, 0)
                    ELSE FixPermissions(w2, major, minor, path, pol, do_mknod)))

\* mknod_helper that takes every nonzero modification_allowed as permission
mknod_helper_NonzeroAllows(w, major, minor, path, src, pr) ==
    IF path = "" THEN Return(w, 0)
    ELSE LET pol == init_device_file_parameters(src)
             state == get_file_state_helper(w, path, major, minor,
                                            pol.uid, pol.gid, pol.mode)
         IN IF pol.modify = 0 THEN symlink_char_dev(w, major, minor, path)
            ELSE IF nvidia_test_file_state(state, NvDeviceFileStateFileExists)
                    /\ nvidia_test_file_state(state, NvDeviceFileStateChrDevOk)
                    /\ nvidia_test_file_state(state, NvDeviceFileStatePermissionsOk)
                 THEN symlink_char_dev(w, major, minor, path)
            ELSE CreateOrFix(w, major, minor, path, pol, state, pr)

\* mknod_helper without the test of modification_allowed
mknod_helper_IgnoresModify(w, major, minor, path, src, pr) ==
    IF path = "" THEN Return(w, 0)
    ELSE LET pol == init_device_file_parameters(src)
             state == get_file_state_helper(w, path, major, minor,
                                            pol.uid, pol.gid, pol.mode)
         IN IF nvidia_test_file_state(state, NvDeviceFileStateFileExists)
               /\ nvidia_test_file_state(state, NvDeviceFileStateChrDevOk)
               /\ nvidia_test_file_state(state, NvDeviceFileStatePermissionsOk)
            THEN symlink_char_dev(w, major, minor, path)
            ELSE CreateOrFix(w, major, minor, path, pol, state, pr)

\* mknod_helper that reports success for a correct node without the symlink step
mknod_helper_NoLinkWhenCorrect(w, major, minor, path, src, pr) ==
    IF path = "" THEN Return(w, 0)
    ELSE LET pol == init_device_file_parameters(src)
             state == get_file_state_helper(w, path, major, minor,
                                            pol.uid, pol.gid, pol.mode)
         IN IF pol.modify # 1 THEN symlink_char_dev(w, major, minor, path)
            ELSE IF nvidia_test_file_state(state, NvDeviceFileStateFileExists)
                    /\ nvidia_test_file_state(state, NvDeviceFileStateChrDevOk)
                    /\ nvidia_test_file_state(state, NvDeviceFileStatePermissionsOk)
                 THEN Return(w, 1)
            ELSE CreateOrFix(w, major, minor, path, pol, state, pr)

\* Create the device file `path` with the given major and minor; src is the
\* policy source read for the permissions.  Each world of the result has
\* ret = 1 (success) or 0.
mknod_helper(w, major, minor, path, src, pr) ==
    IF path = "" THEN Return(w, 0)
    ELSE LET pol == init_device_file_parameters(src)
             state == get_file_state_helper(w, path, major, minor,
                                            pol.uid, pol.gid, pol.mode)
         IN IF pol.modify # 1 THEN symlink_char_dev(w, major, minor, path)
            ELSE IF nvidia_test_file_state(state, NvDeviceFileStateFileExists)
                    /\ nvidia_test_file_state(state, NvDeviceFileStateChrDevOk)
                    /\ nvidia_test_file_state(state, NvDeviceFileStatePermissionsOk)
                 THEN symlink_char_dev(w, major, minor, path)
            ELSE CreateOrFix(w, major, minor, path, pol, state, pr)

nvidia_mknod(w, minor, src, pr) ==
    mknod_helper(w, NV_MAJOR_DEVICE_NUMBER, minor, assign_device_file_name(minor),
                 src, pr)

\* nvidia_get_file_state(minor): the read-only counterpart
nvidia_get_file_state(w, minor, src) ==
    LET pol == init_device_file_parameters(src)
    IN get_file_state_helper(w, assign_device_file_name(minor), NV_MAJOR_DEVICE_NUMBER,
                             minor, pol.uid, pol.gid, pol.mode)

---------------------------------------------------------------------------
(* The reconciler's state machine: one device node, reconciled again and again *)

\* the classic minors whose node a behaviour follows, and the minors a call
\* may be made with (the two outside 0..255 have no path)
DevMinors == {0, NV_CTL_DEVICE_NUM}
BadMinors == {-1, NV_CTL_DEVICE_NUM + 1}

\* nodes that may be at /dev/nvidia<m> when the program starts
InitNodes(m) ==
    LET dev == NV_MAKE_DEVICE(NV_MAJOR_DEVICE_NUMBER, m)
        other == NV_MAKE_DEVICE(NV_MAJOR_DEVICE_NUMBER, m + 1)
        chr(rdev, mode, uid, gid) ==
            [kind |-> "chr", rdev |-> rdev, mode |-> mode, uid |-> uid, gid |-> gid,
             ino |-> 1]
    IN {NoNode,
        [kind |-> "reg", rdev |-> 0, mode |-> 420, uid |-> 0, gid |-> 0, ino |-> 1],
        chr(other, 438, 0, 0),
        chr(dev, 438, 0, 0), chr(dev, 432, 0, 0), chr(dev, 950, 0, 0),
        chr(dev, 438, 1000, 0), chr(dev, 438, 0, 1000)}

\* what may be at /dev/char/195:<m>: nothing, the link to the node, or a link
\* to a file elsewhere (on another filesystem, with inode number 2)
InitLinks(m) ==
    {NoLink,
     [kind |-> "sym", to |-> "../" \o StrFrom(assign_device_file_name(m), Len(NV_DEV_PATH)),
      ino |-> 0],
     [kind |-> "sym", to |-> "/run/elsewhere", ino |-> 2]}

\* contents of /proc/driver/nvidia/params
InitSources ==
    {NoSource,
     Source(<<>>),
     Source(<<KV("ModifyDeviceFiles", 0)>>),
     Source(<<KV("DeviceFileModify", 2)>>),
     Source(<<KV("ResmanDebugLevel", 255), KV("DeviceFileMode", 432),
              KV("DeviceFileUID", 1000)>>),
     Source(<<KV("DeviceFileGID", 1000), KV("ModifyDeviceFiles", 1)>>),
     Source(<<KV("DeviceFileMode", 950)>>),
     Source(<<NonNum("RegistryDwords"), KV("ModifyDeviceFiles", 0)>>),
     Source(<<NoColon("junk"), KV("DeviceFileUID", 1000), KV("DeviceFileMode", 432)>>)}

InitProcs == {[umask |-> 0, egid |-> 0], [umask |-> 18, egid |-> 1000]}

NoCall ==
    [called |-> FALSE, minor |-> 0, path |-> "", pol |-> DefaultPolicy,
     before |-> NoNode, linkBefore |-> NoLink, tr |-> <<>>, ret |-> 0]
NoPrev ==
    [called |-> FALSE, minor |-> 0, pol |-> DefaultPolicy, clean |-> FALSE, ret |-> 0]

\* no syscall of the call failed because the environment made it fail
Clean(tr) == \A i \in 1..Len(tr) : ~tr[i].inj

TheNodePath == CHOOSE p \in DOMAIN fs : TRUE
TheLinkPath == CHOOSE p \in DOMAIN links : TRUE
TheMinor == CHOOSE m \in DevMinors : assign_device_file_name(m) = TheNodePath

InitNode ==
    /\ \E m \in DevMinors :
          /\ fs \in [{assign_device_file_name(m)} -> InitNodes(m)]
          /\ links \in [{CharDevName(NV_MAJOR_DEVICE_NUMBER, m)} -> InitLinks(m)]
    /\ params \in InitSources
    /\ proc \in InitProcs
    /\ last = NoCall
    /\ prev = NoPrev

\* One call of nvidia_mknod(minor), start to return.
MknodCall ==
    \E minor \in {TheMinor} \cup BadMinors :
        \E w \in nvidia_mknod(World(fs, links), minor, params, proc) :
           /\ fs' = w.fs
           /\ links' = w.links
           /\ last' = [called |-> TRUE, minor |-> minor,
                       path |-> assign_device_file_name(minor),
                       pol |-> init_device_file_parameters(params),
                       before |-> fs[TheNodePath], linkBefore |-> links[TheLinkPath],
                       tr |-> w.tr, ret |-> w.ret]
           /\ prev' = [called |-> last.called, minor |-> last.minor, pol |-> last.pol,
                       clean |-> Clean(last.tr), ret |-> last.ret]
           /\ UNCHANGED <<params, proc>>

NextNode == MknodCall /\ UNCHANGED loadVars /\ UNCHANGED calcVars /\ UNCHANGED mainVars /\ UNCHANGED concVars

---------------------------------------------------------------------------
(* The module registry reader: /proc/modules is a sequence of lines, each   *)
(* modelled by its first whitespace-delimited token.                        *)

NV_MAX_MODULE_NAME_SIZE == 16
NV_NVIDIA_MODULE_NAME == "nvidia"
NV_MODESET_MODULE_NAME == "nvidia-modeset"

Min(a, b) == IF a < b THEN a ELSE b
CharAt(s, i) == SubSeq(s, i, i)

\* modcmp(a, b) from position i on: 0 when the strings match up to '-' / '_',
\* and 1 for any nonzero difference a[i] - b[i] (callers compare with 0 only)
RECURSIVE modcmpFrom(_, _, _)
modcmpFrom(a, b, i) ==
    IF i > Len(a) \/ i > Len(b)
    THEN IF Len(a) = Len(b) THEN 0 ELSE 1
    ELSE IF CharAt(a, i) = CharAt(b, i)
            \/ (CharAt(a, i) \in {"-", "_"} /\ CharAt(b, i) \in {"-", "_"})
         THEN modcmpFrom(a, b, i + 1)
         ELSE 1

\* strcmp: the comparison without the '-' / '_' allowance
modcmp_Exact(a, b) == IF a = b THEN 0 ELSE 1

modcmp(a, b) == modcmpFrom(a, b, 1)

\* what fscanf("%15s%*[^\n]\n") stores for a line whose first token is tok
ScanModuleName(tok) == SubSeq(tok, 1, Min(Len(tok), NV_MAX_MODULE_NAME_SIZE - 1))

\* t is /proc/modules: [readable, lines]; fopen fails when it is not readable
is_kernel_module_loaded(t, nv_module_name) ==
    IF ~t.readable THEN FALSE
    ELSE \E i \in 1..Len(t.lines) :
            modcmp(ScanModuleName(t.lines[i]), nv_module_name) = 0

---------------------------------------------------------------------------
(* The hardware presence oracle (pci-sysfs.c).  The bus is                  *)
(* [dir, devs]: dir is "ok", "missing" (stat fails) or "noopen" (opendir    *)
(* fails); each device has the way its config file reads (cfg: "ok",        *)
(* "noopen", "readerr", "short") and the vendor and class found in it.      *)

\* ~0U, as the 32-bit pattern of all ones
PCI_MATCH_ANY == -1
PCI_BASE_CLASS_MASK == 65280
NV_PCI_VENDOR_ID == 4318
PCI_BASE_CLASS_DISPLAY == 768
\* errno after a failed call is written 2 (ENOENT) or 5 (EIO): the callers
\* only tell zero from nonzero

PCI_ID_COMPARE(a, b) == a = PCI_MATCH_ANY \/ a = b

\* the criteria modprobe_helper builds
id_match ==
    [vendor_id |-> NV_PCI_VENDOR_ID, device_id |-> PCI_MATCH_ANY,
     subvendor_id |-> PCI_MATCH_ANY, subdevice_id |-> PCI_MATCH_ANY,
     device_class |-> PCI_BASE_CLASS_DISPLAY, device_class_mask |-> PCI_BASE_CLASS_MASK]

\* pci_sysfs_read_cfg(..., 48, &bytes): [err, bytes].  A short file ends the
\* read loop with read() = 0, which leaves errno as it was (stale).
pci_sysfs_read_cfg(d, stale) ==
    CASE d.cfg = "noopen"  -> [err |-> 2, bytes |-> 0]
      [] d.cfg = "readerr" -> [err |-> 5, bytes |-> 0]
      [] d.cfg = "short"   -> [err |-> stale, bytes |-> 16]
      [] OTHER             -> [err |-> 0, bytes |-> 48]

\* the comparison without the class test
DeviceMatches_AnyClass(match, d) ==
    /\ PCI_ID_COMPARE(match.vendor_id, d.vendor_id)
    /\ PCI_ID_COMPARE(match.device_id, d.device_id)
    /\ PCI_ID_COMPARE(match.subvendor_id, d.subvendor_id)
    /\ PCI_ID_COMPARE(match.subdevice_id, d.subdevice_id)

DeviceMatches(match, d) ==
    /\ PCI_ID_COMPARE(match.vendor_id, d.vendor_id)
    /\ PCI_ID_COMPARE(match.device_id, d.device_id)
    /\ PCI_ID_COMPARE(match.subvendor_id, d.subvendor_id)
    /\ PCI_ID_COMPARE(match.subdevice_id, d.subdevice_id)
    /\ BitAnd(d.device_class, match.device_class_mask) = match.device_class

\* the readdir loop of find_matches from entry i on, n matches counted so far
RECURSIVE find_matches_from(_, _, _, _, _)
find_matches_from(match, devs, stale, i, n) ==
    IF i > Len(devs) THEN [err |-> 0, num_matches |-> n]
    ELSE LET r == pci_sysfs_read_cfg(devs[i], stale)
             n1 == IF r.bytes = 48 /\ r.err = 0 /\ DeviceMatches(match, devs[i])
                   THEN n + 1 ELSE n
         IN IF r.err # 0 THEN [err |-> r.err, num_matches |-> n1]
            ELSE find_matches_from(match, devs, stale, i + 1, n1)

find_matches(match, bus, stale) ==
    IF bus.dir = "noopen" THEN [err |-> 2, num_matches |-> 0]
    ELSE find_matches_from(match, bus.devs, stale, 1, 0)

pci_enum_match_id(match, bus, stale) ==
    IF bus.dir = "missing" THEN [err |-> 2, num_matches |-> 0]
    ELSE find_matches(match, bus, stale)

---------------------------------------------------------------------------
(* The module loader (modprobe_helper).  The machine it reads is `host`:    *)
(*   euid     effective uid of the caller                                   *)
(*   pci      the PCI bus as sysfs shows it                                 *)
(*   soc      /sys/devices/soc0/family: [present, text]                     *)
(*   modpath  /proc/sys/kernel/modprobe: [present, text]                    *)
(*   files    path -> [kind, mode]: what stat(2) finds at a loader path     *)
(*   sigchld  the disposition of SIGCHLD: "default" or "ignore"             *)

NV_MAX_SOC_FAMILY_NAME_SIZE == 6
NV_SOC_FAMILY_NAME_TEGRA == "Tegra"
NV_PROC_MODPROBE_PATH_MAX == 1024
S_IXUSR == 64

\* fread of at most size bytes into a buffer that is then terminated at
\* NV_MIN(n, size - 1)
ReadBuffer(text, size) == SubSeq(text, 1, Min(Min(Len(text), size), size - 1))

is_tegra(soc) ==
    soc.present /\ ReadBuffer(soc.text, NV_MAX_SOC_FAMILY_NAME_SIZE) = NV_SOC_FAMILY_NAME_TEGRA

\* the string up to its first newline (strchr and the nul written there)
RECURSIVE UpToNewline(_, _)
UpToNewline(s, i) ==
    IF i > Len(s) THEN s
    ELSE IF CharAt(s, i) = "\n" THEN SubSeq(s, 1, i - 1)
    ELSE UpToNewline(s, i + 1)

\* lines 282-318: the loader path read from /proc, or the default
ResolveModprobePath(modpath) ==
    LET read == IF modpath.present
                THEN UpToNewline(ReadBuffer(modpath.text, NV_PROC_MODPROBE_PATH_MAX), 1)
                ELSE ""
    IN IF read = "" THEN "/sbin/modprobe" ELSE read

NoFile == [kind |-> "none", mode |-> 0]
StatFile(files, path) == IF path \in DOMAIN files THEN files[path] ELSE NoFile

\* the loader test that accepts any of the three execute bits
LoaderUsable_AnyExecBit(f) ==
    f.kind = "reg" /\ BitAnd(f.mode, 73) # 0

\* lines 322-324: stat succeeded, S_ISREG, and the owner may execute
LoaderUsable(f) ==
    f.kind # "none" /\ f.kind = "reg" /\ BitAnd(f.mode, S_IXUSR) = S_IXUSR

\* the hardware test that takes an oracle error for "no device"
HardwareGate_FailClosed(status, num_matches, allow_on_tegra, tegra) ==
    num_matches = 0 /\ (~allow_on_tegra \/ ~tegra)

\* lines 256-273: TRUE when the call stops for want of hardware
HardwareGate(status, num_matches, allow_on_tegra, tegra) ==
    status = 0 /\ num_matches = 0 /\ (~allow_on_tegra \/ ~tegra)

\* the locals of a modprobe_helper call and the steps it has taken
Call0(module_name, allow_on_tegra) ==
    [name |-> module_name, allow |-> allow_on_tegra, ev |-> <<>>,
     status |-> 1, num_matches |-> 0, tegra |-> "unasked", path |-> "",
     ret |-> -1, at |-> "entry"]
Ev(c, e) == [c EXCEPT !.ev = Append(@, e)]
Ret(c, r) == [c EXCEPT !.ret = r, !.at = "return", !.ev = Append(@, "return")]

\* errno when the oracle runs: left by calls made before modprobe_helper
\* (stale), unless the fopen of /proc/modules has just failed and set it
StaleErrno(stale, t) == IF t.readable THEN stale ELSE 2

\* lines 275-327: the privilege test, the loader path and its stat
ExecGate(h, c0) ==
    LET c1 == Ev(c0, "geteuid")
        p == ResolveModprobePath(h.modpath)
        c2 == [Ev(Ev(c1, "modprobe_path"), "stat") EXCEPT !.path = p]
    IN IF h.euid # 0 THEN Ret(c1, 0)
       ELSE IF ~LoaderUsable(StatFile(h.files, p)) THEN Ret(c2, 0)
       ELSE [c2 EXCEPT !.at = "fork"]

\* lines 246-273, then the rest
HardwareCheck(h, t, stale, c0) ==
    LET m == pci_enum_match_id(id_match, h.pci, StaleErrno(stale, t))
        asks == m.err = 0 /\ m.num_matches = 0 /\ c0.allow
        tg == is_tegra(h.soc)
        c1 == [Ev(c0, "pci_enum_match_id") EXCEPT !.status = m.err,
                                                  !.num_matches = m.num_matches]
        c2 == IF asks THEN [Ev(c1, "is_tegra") EXCEPT
                                !.tegra = IF tg THEN "yes" ELSE "no"]
              ELSE c1
    IN IF HardwareGate(m.err, m.num_matches, c0.allow, tg) THEN Ret(c2, 0)
       ELSE ExecGate(h, c2)

\* modprobe_helper that does not return early for a loaded module
modprobe_helper_NoEarlyReturn(h, t, stale, module_name, allow_on_tegra) ==
    HardwareCheck(h, t, stale, Ev(Call0(module_name, allow_on_tegra), "is_kernel_module_loaded"))

\* modprobe_helper from its entry to a return or to the fork (at = "fork")
\* stale is the value errno holds when the call starts
modprobe_helper(h, t, stale, module_name, allow_on_tegra) ==
    LET c0 == Call0(module_name, allow_on_tegra)
        c1 == Ev(c0, "is_kernel_module_loaded")
    IN IF module_name = "" THEN Ret(c0, 0)
       ELSE IF is_kernel_module_loaded(t, module_name) THEN Ret(c1, 1)
       ELSE HardwareCheck(h, t, stale, c1)

\* waitpid that waits for a process that is no child of the caller's
waitpid_returns_WrongChild(c) == c.state = "none"

\* waitpid without blocking (WNOHANG)
waitpid_returns_NoHang(c) == c.state # "none"

\* line 374: waitpid(pid, NULL, 0) returns once the child has terminated
waitpid_returns(c) == c.state = "exited"

\* the result taken from the child's exit status
ReturnAfterWait_ExitStatus(t, module_name, c) ==
    IF c.status = 0 THEN 1 ELSE 0

\* line 376: the result is the module table, read again
ReturnAfterWait(t, module_name, c) ==
    IF is_kernel_module_loaded(t, module_name) THEN 1 ELSE 0

---------------------------------------------------------------------------
(* The loader's state machine: modprobe_helper calls, the loader child, and *)
(* other processes that load or unload modules meanwhile.                   *)

\* how many modprobe_helper calls a behaviour makes
MaxCalls == 1
\* how many times another process changes the module table
MaxEnv == 1

\* the calls the behaviours make: nvidia_modprobe and nvidia_modeset_modprobe
Callers ==
    {[name |-> NV_NVIDIA_MODULE_NAME, allow |-> FALSE],
     [name |-> NV_MODESET_MODULE_NAME, allow |-> TRUE]}

\* the name the kernel lists a module under
RECURSIVE KernelName(_)
KernelName(n) ==
    IF n = "" THEN ""
    ELSE (IF CharAt(n, 1) = "-" THEN "_" ELSE CharAt(n, 1)) \o KernelName(StrFrom(n, 1))

Table(lines) == [readable |-> TRUE, lines |-> lines, changes |-> 0]

Dev(cfg, vendor, class) ==
    [cfg |-> cfg, vendor_id |-> vendor, device_id |-> 7812, subvendor_id |-> vendor,
     subdevice_id |-> 1, device_class |-> class]
Bus(devs) == [dir |-> "ok", devs |-> devs]

\* the hosts a call may run on.  Buses: an Intel bridge (8086, class 0604),
\* NVIDIA VGA and 3D controllers (10de, 0300 and 0302) and the NVIDIA audio
\* function (10de, 0403).  A loader file is absent, a directory, rwxr-xr-x
\* or rw-r-xr-x.
InitHosts ==
    LET InitBuses ==
            {[dir |-> "missing", devs |-> <<>>],
             [dir |-> "noopen", devs |-> <<>>],
             Bus(<<>>),
             Bus(<<Dev("ok", 32902, 1540), Dev("ok", 4318, 768)>>),
             Bus(<<Dev("ok", 4318, 770), Dev("ok", 4318, 1027)>>),
             Bus(<<Dev("noopen", 32902, 1540), Dev("ok", 4318, 768)>>),
             Bus(<<Dev("ok", 32902, 1540), Dev("readerr", 4318, 768)>>),
             Bus(<<Dev("short", 4318, 768), Dev("ok", 32902, 1540)>>)}
        InitSocs ==
            {[present |-> FALSE, text |-> ""],
             [present |-> TRUE, text |-> "Tegra\n"],
             [present |-> TRUE, text |-> "jep106:0426\n"]}
        InitModpaths ==
            {[present |-> FALSE, text |-> ""],
             [present |-> TRUE, text |-> "/usr/sbin/kmod-load\n"]}
        LoaderPaths == {"/sbin/modprobe", "/usr/sbin/kmod-load"}
        InitLoaderFiles ==
            {NoFile, [kind |-> "dir", mode |-> 493], [kind |-> "reg", mode |-> 493],
             [kind |-> "reg", mode |-> 429]}
    IN {[euid |-> e, pci |-> b, soc |-> sf, modpath |-> mp,
         files |-> [q \in LoaderPaths |-> f], sigchld |-> sc] :
           e \in {0, 1000}, b \in InitBuses, sf \in InitSocs,
           mp \in InitModpaths, f \in InitLoaderFiles, sc \in {"default", "ignore"}}

NoChild == [state |-> "none", status |-> 0]
Idle ==
    [pc |-> "idle", calls |-> 0, name |-> "", allow |-> FALSE, status |-> 1,
     num_matches |-> 0, tegra |-> "unasked", path |-> "", ret |-> -1, wait |-> 0,
     entryTab |-> <<>>, readTab |-> <<>>]

InitLoad ==
    /\ mtab \in
        {[readable |-> FALSE, lines |-> <<>>, changes |-> 0],
         Table(<<>>),
         Table(<<"nvidia">>),
         Table(<<"nvidia_modeset", "nvidia">>),
         Table(<<"nvidia_modeset_dbg", "nvidiafb", "snd_hda_codec_hdmi">>)}
    /\ host \in InitHosts
    /\ lm = Idle
    /\ child = NoChild
    /\ events = <<>>

\* the loader is not run in the behaviours that follow a device node
InitLoadIdle ==
    /\ mtab = Table(<<"nvidia">>)
    /\ host = CHOOSE h \in InitHosts : TRUE
    /\ lm = Idle
    /\ child = NoChild
    /\ events = <<>>

\* no device node is reconciled in the behaviours that follow the loader
InitNodeIdle ==
    /\ fs = [q \in {assign_device_file_name(0)} |-> NoNode]
    /\ links = [q \in {CharDevName(NV_MAJOR_DEVICE_NUMBER, 0)} |-> NoLink]
    /\ params = NoSource
    /\ proc = CHOOSE pr \in InitProcs : TRUE
    /\ last = NoCall
    /\ prev = NoPrev

\* modprobe_helper from its entry to a return, or to the fork and into waitpid
LoadCall ==
    /\ lm.pc \in {"idle", "done"}
    /\ lm.calls < MaxCalls
    /\ \E cl \in Callers, stale \in {0, 2}, forkOk \in BOOLEAN :
       \E c \in {modprobe_helper(host, mtab, stale, cl.name, cl.allow)} :
          LET forked == c.at = "fork" /\ forkOk
              base == [lm EXCEPT !.calls = @ + 1, !.name = c.name, !.allow = c.allow,
                                 !.status = c.status, !.num_matches = c.num_matches,
                                 !.tegra = c.tegra, !.path = c.path, !.wait = 0,
                                 !.entryTab = mtab.lines, !.readTab = <<>>]
          IN /\ c.at = "fork" \/ forkOk
             /\ lm' = IF forked THEN [base EXCEPT !.pc = "waiting", !.ret = -1]
                      ELSE [base EXCEPT !.pc = "done",
                                        !.ret = IF c.at = "fork" THEN 0 ELSE c.ret]
             /\ events' = IF forked THEN Append(c.ev, "fork")
                          ELSE IF c.at = "fork" THEN c.ev \o <<"fork_failed", "return">>
                          ELSE c.ev
             /\ child' = IF forked THEN [state |-> "running", status |-> 0] ELSE NoChild
    /\ UNCHANGED <<mtab, host>>

\* the child: execle of the loader, which may or may not insert the module
\* and exits with some status; exit(1) when execle fails
ChildRun ==
    /\ child.state = "running"
    /\ \E execOk \in BOOLEAN, inserts \in BOOLEAN, status \in {0, 1} :
          /\ ~execOk => (~inserts /\ status = 1)
          /\ mtab' = IF inserts /\ mtab.readable
                        /\ \A i \in 1..Len(mtab.lines) :
                              mtab.lines[i] # KernelName(lm.name)
                     THEN [mtab EXCEPT !.lines = <<KernelName(lm.name)>> \o @]
                     ELSE mtab
          /\ child' = [state |-> "exited", status |-> status]
    /\ events' = Append(events, "child_exit")
    /\ UNCHANGED <<host, lm>>

\* waitpid returns: the child's pid, or -1 (ECHILD) when SIGCHLD is ignored
Wait ==
    /\ lm.pc = "waiting"
    /\ waitpid_returns(child)
    /\ lm' = [lm EXCEPT !.pc = "reaped",
                        !.wait = IF host.sigchld = "ignore" THEN -1 ELSE 1]
    /\ events' = Append(events, "waitpid")
    /\ UNCHANGED <<mtab, host, child>>

\* return is_kernel_module_loaded(module_name)
Requery ==
    /\ lm.pc = "reaped"
    /\ lm' = [lm EXCEPT !.pc = "done", !.ret = ReturnAfterWait(mtab, lm.name, child),
                        !.readTab = mtab.lines]
    /\ events' = events \o <<"is_kernel_module_loaded", "return">>
    /\ UNCHANGED <<mtab, host, child>>

\* another process loads or unloads a module
EnvChange ==
    /\ mtab.readable
    /\ mtab.changes < MaxEnv
    /\ \E m \in {"nvidia", "nvidia_modeset"} :
          mtab' = [mtab EXCEPT
                     !.changes = @ + 1,
                     !.lines = IF \E i \in 1..Len(@) : @[i] = m
                               THEN SelectSeq(@, LAMBDA x : x # m)
                               ELSE <<m>> \o @]
    /\ UNCHANGED <<host, lm, child, events>>

NextLoad ==
    /\ LoadCall \/ ChildRun \/ Wait \/ Requery \/ EnvChange
    /\ UNCHANGED nodeVars
    /\ UNCHANGED calcVars
    /\ UNCHANGED mainVars /\ UNCHANGED concVars

\* no library function is under evaluation
NoCalc == [fn |-> "none", done |-> FALSE]

\* no process is inside mknod_helper
NoCallers == << >>

\* the program is not run
NoRun == [pos |-> [sec |-> "none", i |-> 0]]

Init == InitNode /\ InitLoadIdle /\ calc = NoCalc /\ run = NoRun /\ callers = NoCallers
Spec == Init /\ [][NextNode]_vars

InitL == InitNodeIdle /\ InitLoad /\ calc = NoCalc /\ run = NoRun /\ callers = NoCallers
SpecLoad == InitL /\ [][NextLoad]_vars

\* The loader under the scheduling the code relies on: a running child
\* comes to its end (the proviso of the caller's wait), waitpid returns once
\* it can, and the caller goes on to its next statement.
SpecLoadFair ==
    /\ SpecLoad
    /\ WF_vars(ChildRun /\ UNCHANGED nodeVars /\ UNCHANGED calcVars /\ UNCHANGED mainVars /\ UNCHANGED concVars)
    /\ WF_vars(Wait /\ UNCHANGED nodeVars /\ UNCHANGED calcVars /\ UNCHANGED mainVars /\ UNCHANGED concVars)
    /\ WF_vars(Requery /\ UNCHANGED nodeVars /\ UNCHANGED calcVars /\ UNCHANGED mainVars /\ UNCHANGED concVars)

---------------------------------------------------------------------------
(* The library's functions of their arguments alone.  Each behaviour picks *)
(* one function and one input for it, and the one step applies the         *)
(* function to that input.                                                 *)

QueriedNames ==
    {"nvidia", "nvidia-uvm", "nvidia_uvm", "nvidia-modeset", "nvidia_modeset",
     "nvidia-vgpu-vfio", "nvidia_vgpu_vfio", "nvidia-vgpu_vfio"}
MaxLines == 2

\* the table has up to MaxLines lines, beginning with one of these words
InitLoadedQuery ==
    LET ModuleTokens == {"nvidia", "nvidia_uvm", "nvidia-uvm", "nvidia_modeset",
                         "nvidia_modeset_dbg", "nvidia_vgpu_vfio"}
    IN calc \in [fn : {"is_kernel_module_loaded"}, done : {FALSE},
                 t : {Table(l) : l \in UNION {[1..k -> ModuleTokens] : k \in 0..MaxLines}}
                     \cup {[readable |-> FALSE, lines |-> <<>>, changes |-> 0]},
                 name : QueriedNames]

\* is_kernel_module_loaded(name) over the table
LoadedQuery ==
    /\ calc.fn = "is_kernel_module_loaded" /\ ~calc.done
    /\ calc' = [fn |-> calc.fn, done |-> TRUE, t |-> calc.t, name |-> calc.name,
                out |-> is_kernel_module_loaded(calc.t, calc.name)]

\* strstr(haystack, needle): position of the first occurrence, 0 for NULL
strstr(haystack, needle) ==
    LET at == {i \in 1..(Len(haystack) - Len(needle) + 1) :
                  SubSeq(haystack, i, i + Len(needle) - 1) = needle}
    IN IF at = {} THEN 0 ELSE CHOOSE i \in at : \A j \in at : i <= j

IsSpace(ch) == ch \in {" ", "\t", "\n"}
IsDigit(ch) == ch # "" /\ strstr("0123456789", ch) > 0
DigitOf(ch) == strstr("0123456789", ch) - 1

\* the decimal number that starts at position i of s
RECURSIVE ScanDigits(_, _, _)
ScanDigits(s, i, acc) ==
    IF i <= Len(s) /\ IsDigit(CharAt(s, i))
    THEN ScanDigits(s, i + 1, acc * 10 + DigitOf(CharAt(s, i)))
    ELSE acc

RECURSIVE SkipSpace(_, _)
SkipSpace(s, i) == IF i <= Len(s) /\ IsSpace(CharAt(s, i)) THEN SkipSpace(s, i + 1) ELSE i

\* sscanf(line, " %d %*s", &major): [n |-> items stored, major |-> the item]
sscanf_major(line) ==
    LET i == SkipSpace(line, 1)
    IN IF i <= Len(line) /\ IsDigit(CharAt(line, i))
       THEN [n |-> 1, major |-> ScanDigits(line, i, 0)]
       ELSE [n |-> 0, major |-> 0]

\* the test of one line that finds the first occurrence only
LineMatches_AnyOccurrence(line, name) == strstr(line, name) > 0

\* found && found[strlen(name)] == '\n'
LineMatches(line, name) ==
    LET found == strstr(line, name)
    IN found > 0 /\ CharAt(line, found + Len(name)) = "\n"

\* the first loop: index of the "Character devices:" line, or past the end
RECURSIVE SectionStart(_, _)
SectionStart(lines, i) ==
    IF i > Len(lines) \/ lines[i] = "Character devices:\n" THEN i
    ELSE SectionStart(lines, i + 1)

\* the second loop, from line i on
RECURSIVE SearchSection(_, _, _)
SearchSection(lines, name, i) ==
    IF i > Len(lines) \/ lines[i] = "\n" THEN -1
    ELSE IF LineMatches(lines[i], name)
         THEN LET r == sscanf_major(lines[i]) IN IF r.n = 1 THEN r.major ELSE -1
         ELSE SearchSection(lines, name, i + 1)

\* f is /proc/devices: [readable, lines], each line with its newline
nvidia_get_chardev_major(f, name) ==
    IF ~f.readable THEN -1
    ELSE SearchSection(f.lines, name, SectionStart(f.lines, 1) + 1)

MaxDevLines == 3

InitMajorQuery ==
    LET DeviceLines == {"195 nvidia\n", "195 nvidia-uvm\n", "234 nvidia-caps\n",
                        "  1 mem\n", "\n", "Block devices:\n", "nvidia\n",
                        "240 not-nvidia\n"}
        DeviceFiles ==
            {[readable |-> FALSE, lines |-> <<>>]} \cup
            {[readable |-> TRUE, lines |-> h \o b] :
                h \in {<<>>, <<"Character devices:\n">>},
                b \in UNION {[1..k -> DeviceLines] : k \in 0..MaxDevLines}}
    IN calc \in [fn : {"nvidia_get_chardev_major"}, done : {FALSE},
                 f : DeviceFiles, name : {"nvidia", "nvidia-uvm", "nvidia-caps"}]

MajorQuery ==
    /\ calc.fn = "nvidia_get_chardev_major" /\ ~calc.done
    /\ calc' = [fn |-> calc.fn, done |-> TRUE, f |-> calc.f, name |-> calc.name,
                out |-> nvidia_get_chardev_major(calc.f, calc.name)]

\* a NULL proc_path
NullPath == "(null)"

\* the function that opens the source whatever the path
read_parameters_NoPathTest(proc_path, src) == init_device_file_parameters(src)

\* init_device_file_parameters with its proc_path argument: the defaults
\* are returned before fopen when the path is NULL or empty
read_parameters(proc_path, src) ==
    IF proc_path = NullPath \/ proc_path = "" THEN DefaultPolicy
    ELSE init_device_file_parameters(src)

MaxItems == 3

InitParamsRead ==
    LET PolicyItems ==
            {KV("DeviceFileUID", 1000), KV("DeviceFileGID", 44), KV("DeviceFileMode", 432),
             KV("ModifyDeviceFiles", 0), KV("DeviceFileModify", 2), KV("DeviceFileUID", 7),
             KV("ResmanDebugLevel", 255), NonNum("RegistryDwords"), NoColon("junk"),
             KV("NVreg_EnableStreamMemOPsAndSomeMore", 1)}
        Sources == {NoSource} \cup
                   {Source(s) : s \in UNION {[1..k -> PolicyItems] : k \in 0..MaxItems}}
    IN calc \in [fn : {"init_device_file_parameters"}, done : {FALSE},
                 proc_path : {NullPath, "", NV_PROC_REGISTRY_PATH}, src : Sources]

ParamsRead ==
    /\ calc.fn = "init_device_file_parameters" /\ ~calc.done
    /\ calc' = [fn |-> calc.fn, done |-> TRUE, proc_path |-> calc.proc_path,
                src |-> calc.src, out |-> read_parameters(calc.proc_path, calc.src)]

NV_NVSWITCH_CTL_MINOR == 255

\* mkdir, chmod or chown of a device directory: nothing of it is kept in
\* the model but whether the call failed (EEXIST from mkdir is no failure)
sys_dir(w, op, path) == Outcomes(w, op, path, TRUE, w)

\* the name nvidia_nvswitch_mknod builds
nvswitch_name(minor) ==
    IF minor = NV_NVSWITCH_CTL_MINOR THEN "/dev/nvidia-nvswitchctl"
    ELSE "/dev/nvidia-nvswitch" \o ToString(minor)

nvidia_nvswitch_mknod(w, f, minor, src, pr) ==
    LET major == nvidia_get_chardev_major(f, "nvidia-nvswitch")
    IN IF major < 0 THEN Return(w, 0)
       ELSE mknod_helper(w, major, minor, nvswitch_name(minor), src, pr)

\* snprintf(vgpu_dev_name, ..., NV_VGPU_VFIO_DEVICE_NAME, minor_num)
vgpu_vfio_name(minor_num) == "/dev/nvidia-vgpu" \o ToString(minor_num)

nvidia_vgpu_vfio_mknod(w, f, minor_num, src, pr) ==
    LET major == nvidia_get_chardev_major(f, "nvidia-vgpu-vfio")
    IN IF major < 0 THEN Return(w, 0)
       ELSE mknod_helper(w, major, minor_num, vgpu_vfio_name(minor_num), src, pr)

\* the fscanf loop over the capability file: the value of the first
\* DeviceFileMinor item the scan gets to, or -1
RECURSIVE ScanCapMinor(_, _, _)
ScanCapMinor(items, i, carried) ==
    IF i > Len(items) THEN -1
    ELSE LET name == carried \o items[i].name
         IN IF items[i].form = "nocolon" THEN ScanCapMinor(items, i + 1, name \o "\n")
            ELSE IF Len(name) > 31 \/ Len(name) = 0 \/ items[i].form = "nonnum" THEN -1
            ELSE IF name = "DeviceFileMinor" THEN items[i].value
            ELSE ScanCapMinor(items, i + 1, "")

\* [ret, major, minor, name]
nvidia_cap_get_device_file_attrs(f, cap) ==
    LET major == nvidia_get_chardev_major(f, "nvidia-caps")
        minor == IF cap.readable THEN ScanCapMinor(cap.items, 1, "") ELSE -1
    IN IF major < 0 \/ ~cap.readable \/ minor < 0
       THEN [ret |-> 0, major |-> major, minor |-> minor, name |-> ""]
       ELSE [ret |-> 1, major |-> major, minor |-> minor,
             name |-> "/dev/nvidia-caps/nvidia-cap" \o ToString(minor)]

nvidia_cap_mknod(w, f, cap, pr) ==
    LET a == nvidia_cap_get_device_file_attrs(f, cap)
        dir == "/dev/nvidia-caps"
        after_chown(w3) == IF w3.rc # 0 THEN Return(w3, 0)
                           ELSE mknod_helper(w3, a.major, a.minor, a.name, cap, pr)
        after_chmod(w2) == IF w2.rc # 0 THEN Return(w2, 0)
                           ELSE Then(sys_dir(w2, "chown_dir", dir), after_chown)
        after_mkdir(w1) == IF w1.rc # 0 THEN Return(w1, 0)
                           ELSE Then(sys_dir(w1, "chmod_dir", dir), after_chmod)
    IN IF a.ret = 0 THEN Return(w, 0)
       ELSE Then(sys_dir(w, "mkdir", dir), after_mkdir)

\* snprintf(name, ..., NV_CAPS_IMEX_CHANNEL_DEVICE_NAME, minor)
imex_channel_name(minor) == "/dev/nvidia-caps-imex-channels/channel" \o ToString(minor)

nvidia_cap_imex_channel_mknod(w, f, minor, src, pr) ==
    LET major == nvidia_get_chardev_major(f, "nvidia-caps-imex-channels")
        after_mkdir(w1) == IF w1.rc # 0 THEN Return(w1, 0)
                           ELSE mknod_helper(w1, major, minor, imex_channel_name(minor), src, pr)
    IN IF major < 0 THEN Return(w, 0)
       ELSE Then(sys_dir(w, "mkdir", "/dev/nvidia-caps-imex-channels"), after_mkdir)

AllDevices ==
    [readable |-> TRUE,
     lines |-> <<"Character devices:\n", "195 nvidia\n", "235 nvidia-nvlink\n",
                 "236 nvidia-nvswitch\n",
                 "237 nvidia-vgpu-vfio\n", "238 nvidia-caps-imex-channels\n",
                 "239 nvidia-caps\n", "\n", "Block devices:\n">>]
CapFile(minor) == Source(<<KV("DeviceFileMinor", minor), KV("DeviceFileMode", 292)>>)

\* the path a feature's create operation builds for an identifier
DeviceName(feature, id) ==
    CASE feature = "nvidia" -> assign_device_file_name(id)
      [] feature = "nvswitch" -> nvswitch_name(id)
      [] feature = "vgpu" -> vgpu_vfio_name(id)
      [] feature = "cap" -> nvidia_cap_get_device_file_attrs(AllDevices, CapFile(id)).name
      [] feature = "imex" -> imex_channel_name(id)

MajorOf(f, feature) ==
    nvidia_get_chardev_major(f, CASE feature = "nvidia" -> "nvidia"
                                  [] feature = "nvswitch" -> "nvidia-nvswitch"
                                  [] feature = "vgpu" -> "nvidia-vgpu-vfio"
                                  [] feature = "cap" -> "nvidia-caps"
                                  [] feature = "imex" -> "nvidia-caps-imex-channels")

\* the feature's create operation on a device directory with nothing in it
FeatureMknodWorlds(feature, id, f, pr) ==
    LET w == World([q \in {DeviceName(feature, id)} |-> NoNode],
                   [q \in {CharDevName(MajorOf(AllDevices, feature), id)} |-> NoLink])
    IN CASE feature = "nvidia" -> nvidia_mknod(w, id, NoSource, pr)
         [] feature = "nvswitch" -> nvidia_nvswitch_mknod(w, f, id, NoSource, pr)
         [] feature = "vgpu" -> nvidia_vgpu_vfio_mknod(w, f, id, NoSource, pr)
         [] feature = "cap" -> nvidia_cap_mknod(w, f, CapFile(id), pr)
         [] feature = "imex" -> nvidia_cap_imex_channel_mknod(w, f, id, NoSource, pr)

\* what a create operation leaves: its result, and whether a node and a
\* link were made.  With a negative identifier and a path, the device
\* number is the left shift of a negative int, which the language leaves
\* undefined: every result is possible.
FeatureMknodResults(feature, id, f, pr) ==
    IF id < 0 /\ DeviceName(feature, id) # "" /\ MajorOf(f, feature) >= 0
    THEN [ret : {0, 1}, made : BOOLEAN, linked : BOOLEAN]
    ELSE {[ret |-> w.ret,
           made |-> \E q \in DOMAIN w.fs : w.fs[q].kind # "none",
           linked |-> \E q \in DOMAIN w.links : w.links[q].kind # "none"] :
          w \in FeatureMknodWorlds(feature, id, f, pr)}

InitFeatureMknod ==
    calc \in [fn : {"mknod"}, done : {FALSE},
              feature : {"nvidia", "nvswitch", "vgpu", "cap", "imex"},
              id : {-1, 0, 1, NV_NVSWITCH_CTL_MINOR, NV_NVSWITCH_CTL_MINOR + 1},
              f : {AllDevices, [readable |-> TRUE, lines |-> <<"Character devices:\n">>]}]

FeatureMknod ==
    /\ calc.fn = "mknod" /\ ~calc.done
    /\ \E r \in FeatureMknodResults(calc.feature, calc.id, calc.f, proc) :
          calc' = [fn |-> calc.fn, done |-> TRUE, feature |-> calc.feature,
                   id |-> calc.id, f |-> calc.f,
                   name |-> DeviceName(calc.feature, calc.id), out |-> r]

nvidia_nvlink_mknod(w, f, src, pr) ==
    LET major == nvidia_get_chardev_major(f, "nvidia-nvlink")
    IN IF major < 0 THEN Return(w, 0)
       ELSE mknod_helper(w, major, 0, "/dev/nvidia-nvlink", src, pr)

nvidia_nvlink_get_file_state(w, f, src) ==
    LET major == nvidia_get_chardev_major(f, "nvidia-nvlink")
        path == IF major < 0 THEN "" ELSE "/dev/nvidia-nvlink"
        pol == init_device_file_parameters(src)
    IN get_file_state_helper(w, path, major, 0, pol.uid, pol.gid, pol.mode)

nvidia_nvswitch_get_file_state(w, f, minor, src) ==
    LET major == nvidia_get_chardev_major(f, "nvidia-nvswitch")
        path == IF major < 0 \/ minor < 0 \/ minor > NV_NVSWITCH_CTL_MINOR THEN ""
                ELSE nvswitch_name(minor)
        pol == init_device_file_parameters(src)
    IN get_file_state_helper(w, path, major, minor, pol.uid, pol.gid, pol.mode)

nvidia_cap_get_file_state(w, f, cap) ==
    LET a == nvidia_cap_get_device_file_attrs(f, cap)
        pol == init_device_file_parameters(cap)
    IN get_file_state_helper(w, a.name, a.major, a.minor, pol.uid, pol.gid, pol.mode)

\* the major number given to the helper is NV_MAJOR_DEVICE_NUMBER, the one
\* looked up is only tested for its sign
nvidia_cap_imex_channel_file_state(w, f, minor, src) ==
    LET major == nvidia_get_chardev_major(f, "nvidia-caps-imex-channels")
        pol == init_device_file_parameters(src)
    IN IF major < 0 THEN 0
       ELSE get_file_state_helper(w, imex_channel_name(minor), NV_MAJOR_DEVICE_NUMBER,
                                  minor, pol.uid, pol.gid, pol.mode)

\* A feature's create operation followed at once by its file-state query.
\* pf is procfs: the three policy files the code names (the registry, the
\* NVLink and the NVSwitch permissions); a capability has its own file.
InitCreateQuery ==
    LET Policies == {NoSource, Source(<<KV("DeviceFileUID", 1000), KV("DeviceFileMode", 432)>>)}
    IN calc \in [fn : {"create_query"}, done : {FALSE},
                 feature : {"nvidia", "nvlink", "nvswitch", "cap", "imex"},
                 id : {0, 1, NV_NVSWITCH_CTL_MINOR, NV_NVSWITCH_CTL_MINOR + 1},
                 f : {AllDevices},
                 pf : [registry : Policies, nvlink : Policies, nvswitch : Policies],
                 before : {NoNode, [kind |-> "reg", rdev |-> 0, mode |-> 420, uid |-> 0,
                                    gid |-> 0, ino |-> 1]}]

\* the create operation of a feature, with the policy file the code names
FeatureCreate(w, feature, id, f, pf, pr) ==
    CASE feature = "nvidia" -> nvidia_mknod(w, id, pf.registry, pr)
      [] feature = "nvlink" -> nvidia_nvlink_mknod(w, f, pf.nvlink, pr)
      [] feature = "nvswitch" -> nvidia_nvswitch_mknod(w, f, id, pf.nvswitch, pr)
      [] feature = "cap" -> nvidia_cap_mknod(w, f, CapFile(id), pr)
      [] feature = "imex" -> nvidia_cap_imex_channel_mknod(w, f, id, pf.registry, pr)

\* the file-state query of a feature, with the policy file the code names
FeatureFileState(w, feature, id, f, pf) ==
    CASE feature = "nvidia" -> nvidia_get_file_state(w, id, pf.registry)
      [] feature = "nvlink" -> nvidia_nvlink_get_file_state(w, f, pf.nvlink)
      [] feature = "nvswitch" -> nvidia_nvswitch_get_file_state(w, f, id, pf.nvswitch)
      [] feature = "cap" -> nvidia_cap_get_file_state(w, f, CapFile(id))
      [] feature = "imex" -> nvidia_cap_imex_channel_file_state(w, f, id, pf.registry)

CreateQuery ==
    /\ calc.fn = "create_query" /\ ~calc.done
    /\ \E major \in {IF calc.feature = "nvlink"
                     THEN nvidia_get_chardev_major(calc.f, "nvidia-nvlink")
                     ELSE MajorOf(calc.f, calc.feature)},
          minor \in {IF calc.feature = "nvlink" THEN 0 ELSE calc.id},
          path \in {IF calc.feature = "nvlink" THEN "/dev/nvidia-nvlink"
                    ELSE DeviceName(calc.feature, calc.id)} :
       \E w \in FeatureCreate(World([q \in {path} |-> calc.before],
                                    [q \in {CharDevName(major, minor)} |-> NoLink]),
                              calc.feature, calc.id, calc.f, calc.pf, proc) :
       \E state \in {FeatureFileState(w, calc.feature, calc.id, calc.f, calc.pf)} :
          calc' = [fn |-> calc.fn, done |-> TRUE, feature |-> calc.feature,
                   id |-> calc.id, f |-> calc.f, pf |-> calc.pf,
                   before |-> calc.before,
                   out |-> [ret |-> w.ret, state |-> state,
                            node |-> IF path \in DOMAIN w.fs THEN w.fs[path] ELSE NoNode,
                            rdev |-> NV_MAKE_DEVICE(major, minor)]]

MaxDevs == 3

\* search criteria: the loader's, any NVIDIA function, one device id with
\* one subsystem, the 3D controller subclass only, anything at all
InitPciQuery ==
    LET Criteria ==
            {id_match,
             [id_match EXCEPT !.device_class = 0, !.device_class_mask = 0],
             [id_match EXCEPT !.device_id = 7812, !.subvendor_id = 4318, !.subdevice_id = 1],
             [id_match EXCEPT !.device_id = 7813],
             [id_match EXCEPT !.device_class = 770, !.device_class_mask = 65535],
             [id_match EXCEPT !.vendor_id = PCI_MATCH_ANY, !.device_class = 0,
                              !.device_class_mask = 0]}
        BusDevices ==
            {Dev("ok", 32902, 1540), Dev("ok", 4318, 768), Dev("ok", 4318, 770),
             Dev("ok", 4318, 1027), Dev("short", 4318, 768), Dev("readerr", 4318, 768)}
        Buses ==
            {[dir |-> "missing", devs |-> <<>>], [dir |-> "noopen", devs |-> <<>>]} \cup
            {Bus(s) : s \in UNION {[1..k -> BusDevices] : k \in 0..MaxDevs}}
    IN calc \in [fn : {"pci_enum_match_id"}, done : {FALSE}, match : Criteria,
                 bus : Buses, stale : {0, 2}]

PciQuery ==
    /\ calc.fn = "pci_enum_match_id" /\ ~calc.done
    /\ calc' = [fn |-> calc.fn, done |-> TRUE, match |-> calc.match, bus |-> calc.bus,
                stale |-> calc.stale,
                out |-> pci_enum_match_id(calc.match, calc.bus, calc.stale)]

\* NV_MAKE_DEVICE as the 64-bit dev_t it is cast to: [upper] the upper 32
\* bits (0, or -1 for all ones), [bit31] and [low31] the lower 32.  The
\* macro computes in int: with minor >= 2^19 the shift (minor & ~0xff) << 12
\* passes INT_MAX, which the language leaves undefined; the build either
\* keeps the bits (upper 0) or extends the sign of the int (upper all ones).
MakeDeviceOutcomes(major, minor) ==
    IF minor \div 256 < 2048
    THEN {[upper |-> 0, bit31 |-> 0, low31 |-> NV_MAKE_DEVICE(major, minor)]}
    ELSE {[upper |-> u, bit31 |-> 1,
           low31 |-> NV_MAKE_DEVICE(major, minor - 2048 * 256)] : u \in {0, -1}}

InitPack ==
    calc \in [fn : {"NV_MAKE_DEVICE"}, done : {FALSE},
              major : {0, 1, NV_MAJOR_DEVICE_NUMBER, 4095},
              minor : {0, 1, 255, 256, 257, 4095, 65536, 524287, 524288, 1048575}]

\* dev_t dev = NV_MAKE_DEVICE(major, minor), as get_file_state_helper and
\* mknod_helper both begin
Pack ==
    /\ calc.fn = "NV_MAKE_DEVICE" /\ ~calc.done
    /\ \E d \in MakeDeviceOutcomes(calc.major, calc.minor) :
          calc' = [fn |-> calc.fn, done |-> TRUE, major |-> calc.major,
                   minor |-> calc.minor, out |-> d]

InitCalc ==
    /\ InitNodeIdle /\ InitLoadIdle /\ run = NoRun /\ callers = NoCallers
    /\ \/ InitLoadedQuery
       \/ InitMajorQuery
       \/ InitParamsRead
       \/ InitFeatureMknod
       \/ InitPciQuery
       \/ InitPack
       \/ InitCreateQuery

NextCalc ==
    /\ \/ LoadedQuery
       \/ MajorQuery
       \/ ParamsRead
       \/ FeatureMknod
       \/ PciQuery
       \/ Pack
       \/ CreateQuery
    /\ UNCHANGED nodeVars
    /\ UNCHANGED loadVars
    /\ UNCHANGED mainVars /\ UNCHANGED concVars

SpecCalc == InitCalc /\ [][NextCalc]_vars

---------------------------------------------------------------------------
(* The program (main).  The command line is o: the flags nvlink, nvswitch,  *)
(* uvm_modprobe, enable_auto_online_movable and modeset, the minors given   *)
(* with -c, the number of capability files given with -f and the IMEX       *)
(* channel range given with -i.  What a library call returns is up to the   *)
(* machine: either result is possible.                                      *)

NoSuchCall == [fn |-> "none", arg |-> 0]
Call(fn, arg) == [fn |-> fn, arg |-> arg]

\* the call main makes at step i of one of its four parts, if any
CallAt(o, sec, i) ==
    CASE sec = "mode" ->
           IF o.nvlink
           THEN (IF i = 0 THEN Call("nvidia_modprobe", 0)
                 ELSE IF i = 1 THEN Call("nvidia_nvlink_mknod", 0) ELSE NoSuchCall)
           ELSE IF o.nvswitch
           THEN (IF i = 0 THEN Call("nvidia_modprobe", 0)
                 ELSE IF i <= Len(o.minors) THEN Call("nvidia_nvswitch_mknod", o.minors[i])
                 ELSE NoSuchCall)
           ELSE IF o.uvm_modprobe
           THEN (IF i = 0 THEN Call("nvidia_uvm_modprobe", 0)
                 ELSE IF i <= Len(o.minors) THEN Call("nvidia_uvm_mknod", o.minors[i])
                 ELSE NoSuchCall)
           ELSE IF o.enable_auto_online_movable
           THEN (IF i = 0 THEN Call("nvidia_enable_auto_online_movable", 0) ELSE NoSuchCall)
           ELSE (IF i = 0 THEN Call("nvidia_modprobe", 0)
                 ELSE IF i <= Len(o.minors) THEN Call("nvidia_mknod", o.minors[i])
                 ELSE NoSuchCall)
      [] sec = "modeset" ->
           IF o.modeset /\ i = 0 THEN Call("nvidia_modeset_modprobe", 0)
           ELSE IF o.modeset /\ i = 1 THEN Call("nvidia_modeset_mknod", 0)
           ELSE NoSuchCall
      [] sec = "cap" ->
           IF i < o.num_cap_files THEN Call("nvidia_cap_mknod", i) ELSE NoSuchCall
      [] sec = "imex" ->
           IF i < o.imex_channel_minors
           THEN Call("nvidia_cap_imex_channel_mknod", o.imex_channel_minor_start + i)
           ELSE NoSuchCall
      [] OTHER -> NoSuchCall

NextSection(sec) ==
    CASE sec = "mode" -> "modeset" [] sec = "modeset" -> "cap" [] sec = "cap" -> "imex"
      [] OTHER -> "done"

\* where control is when it next calls the library or reaches done:
RECURSIVE Settle(_, _)
Settle(o, pos) ==
    IF pos.sec = "done" \/ CallAt(o, pos.sec, pos.i) # NoSuchCall THEN pos
    ELSE Settle(o, [sec |-> NextSection(pos.sec), i |-> 0])

\* main that goes on after a failed call
AfterCall_NoGoto(o, pos, ret) == Settle(o, [sec |-> pos.sec, i |-> pos.i + 1])

\* if (!ret) goto done; otherwise on to the next call
AfterCall(o, pos, ret) ==
    IF ret = 0 THEN [sec |-> "done", i |-> 0]
    ELSE Settle(o, [sec |-> pos.sec, i |-> pos.i + 1])

MaxMinors == 2
CommandLines ==
    [nvlink : BOOLEAN, nvswitch : BOOLEAN, uvm_modprobe : BOOLEAN,
     enable_auto_online_movable : BOOLEAN, modeset : BOOLEAN,
     minors : {[k \in 1..n |-> k - 1] : n \in 0..MaxMinors},
     num_cap_files : {0, 1},
     imex_channel_minor_start : {0}, imex_channel_minors : {-1, 0, 2}]

InitMain ==
    /\ InitNodeIdle /\ InitLoadIdle /\ calc = NoCalc /\ callers = NoCallers
    /\ \E o \in CommandLines :
          run = [o |-> o, pos |-> Settle(o, [sec |-> "mode", i |-> 0]), ret |-> 1,
                 log |-> <<>>, exit |-> -1]

\* ret = <library call>; if (!ret) goto done;
MainCall ==
    /\ run.pos.sec \in {"mode", "modeset", "cap", "imex"}
    /\ \E ret \in {0, 1} :
          run' = [run EXCEPT !.ret = ret,
                             !.log = Append(@, [call |-> CallAt(run.o, run.pos.sec, run.pos.i),
                                                ret |-> ret]),
                             !.pos = AfterCall(run.o, run.pos, ret)]

\* done: return !ret;
MainReturn ==
    /\ run.pos.sec = "done"
    /\ run' = [run EXCEPT !.exit = IF run.ret = 0 THEN 1 ELSE 0,
                          !.pos = [sec |-> "exited", i |-> 0]]

NextMain ==
    /\ MainCall \/ MainReturn
    /\ UNCHANGED nodeVars
    /\ UNCHANGED loadVars
    /\ UNCHANGED calcVars
    /\ UNCHANGED concVars

SpecMain == InitMain /\ [][NextMain]_vars

---------------------------------------------------------------------------
(* Two processes inside mknod_helper at the same time, for the same node    *)
(* and under the same policy, which allows modification.  A step is one     *)
(* system call of one process, and a system call fails only for what it     *)
(* finds in the filesystem.  last.before and last.linkBefore keep what was  *)
(* there when the two began.                                                *)

\* the filesystem as a system call meets it: no failure is made up
Quiet == [World(fs, links) EXCEPT !.nf = MaxFaults]

InitConc ==
    /\ \E m \in DevMinors :
          /\ fs \in [{assign_device_file_name(m)} -> InitNodes(m)]
          /\ links \in [{CharDevName(NV_MAJOR_DEVICE_NUMBER, m)} -> InitLinks(m)]
    /\ params \in {s \in InitSources : init_device_file_parameters(s).modify = 1}
    /\ proc \in InitProcs
    /\ last = [NoCall EXCEPT !.minor = TheMinor, !.path = TheNodePath,
                             !.pol = init_device_file_parameters(params),
                             !.before = fs[TheNodePath],
                             !.linkBefore = links[TheLinkPath]]
    /\ prev = NoPrev
    /\ callers = [p \in {"first", "second"} |->
                     [pc |-> "get_file_state", state |-> 0, do_mknod |-> 0,
                      ino |-> 0, ret |-> -1]]
    /\ InitLoadIdle /\ calc = NoCalc /\ run = NoRun

\* get_file_state_helper that sends every node without the policy's
\* permissions to removal
P_get_file_state_Recreate(p) ==
    /\ callers[p].pc = "get_file_state"
    /\ LET state == get_file_state_helper(Quiet, last.path, NV_MAJOR_DEVICE_NUMBER,
                                          last.minor, last.pol.uid, last.pol.gid,
                                          last.pol.mode)
           exists == nvidia_test_file_state(state, NvDeviceFileStateFileExists)
           allOk == /\ exists
                    /\ nvidia_test_file_state(state, NvDeviceFileStateChrDevOk)
                    /\ nvidia_test_file_state(state, NvDeviceFileStatePermissionsOk)
       IN callers' = [callers EXCEPT
              ![p].state = state,
              ![p].do_mknod = IF exists THEN 0 ELSE 1,
              ![p].pc = IF allOk THEN "stat_dev"
                        ELSE IF ~exists THEN "mknod"
                        ELSE "remove"]
    /\ UNCHANGED <<fs, links>>

\* lines 598-633: the policy is read, the node is observed, and the way on
\* is chosen from what was observed
P_get_file_state(p) ==
    /\ callers[p].pc = "get_file_state"
    /\ LET state == get_file_state_helper(Quiet, last.path, NV_MAJOR_DEVICE_NUMBER,
                                          last.minor, last.pol.uid, last.pol.gid,
                                          last.pol.mode)
           exists == nvidia_test_file_state(state, NvDeviceFileStateFileExists)
           chrOk == nvidia_test_file_state(state, NvDeviceFileStateChrDevOk)
           allOk == /\ exists /\ chrOk
                    /\ nvidia_test_file_state(state, NvDeviceFileStatePermissionsOk)
       IN callers' = [callers EXCEPT
              ![p].state = state,
              ![p].do_mknod = IF exists THEN 0 ELSE 1,
              ![p].pc = IF last.pol.modify # 1 \/ allOk THEN "stat_dev"
                        ELSE IF ~exists THEN "mknod"
                        ELSE IF ~chrOk THEN "remove"
                        ELSE "chmod"]
    /\ UNCHANGED <<fs, links>>

\* lines 632-641: remove(path) of the node that is not the device
P_remove(p) ==
    /\ callers[p].pc = "remove"
    /\ \E w \in sys_remove(Quiet, last.path, "remove") :
          /\ fs' = w.fs
          /\ callers' = IF w.rc # 0
                        THEN [callers EXCEPT ![p].pc = "done", ![p].ret = 0]
                        ELSE [callers EXCEPT ![p].pc = "mknod", ![p].do_mknod = 1]
    /\ UNCHANGED links

\* lines 643-650: mknod(path, S_IFCHR | mode, dev)
P_mknod(p) ==
    /\ callers[p].pc = "mknod"
    /\ \E w \in sys_mknod(Quiet, last.path, last.pol.mode,
                          NV_MAKE_DEVICE(NV_MAJOR_DEVICE_NUMBER, last.minor), proc) :
          /\ fs' = w.fs
          /\ callers' = IF w.rc # 0
                        THEN [callers EXCEPT ![p].pc = "done", ![p].ret = 0]
                        ELSE [callers EXCEPT ![p].pc = "chmod"]
    /\ UNCHANGED links

\* line 657: chmod(path, mode)
P_chmod(p) ==
    /\ callers[p].pc = "chmod"
    /\ \E w \in sys_chmod(Quiet, last.path, last.pol.mode) :
          /\ fs' = w.fs
          /\ callers' = IF w.rc = 0 THEN [callers EXCEPT ![p].pc = "chown"]
                        ELSE IF callers[p].do_mknod = 1
                             THEN [callers EXCEPT ![p].pc = "rollback"]
                        ELSE [callers EXCEPT ![p].pc = "done", ![p].ret = 0]
    /\ UNCHANGED links

\* line 658: chown(path, uid, gid)
P_chown(p) ==
    /\ callers[p].pc = "chown"
    /\ \E w \in sys_chown(Quiet, last.path, last.pol.uid, last.pol.gid) :
          /\ fs' = w.fs
          /\ callers' = IF w.rc = 0 THEN [callers EXCEPT ![p].pc = "stat_dev"]
                        ELSE IF callers[p].do_mknod = 1
                             THEN [callers EXCEPT ![p].pc = "rollback"]
                        ELSE [callers EXCEPT ![p].pc = "done", ![p].ret = 0]
    /\ UNCHANGED links

\* lines 659-665: remove(path) of the node this process made, return 0
P_rollback(p) ==
    /\ callers[p].pc = "rollback"
    /\ \E w \in sys_remove(Quiet, last.path, "rollback") :
          /\ fs' = w.fs
          /\ callers' = [callers EXCEPT ![p].pc = "done", ![p].ret = 0]
    /\ UNCHANGED links

\* symlink_char_dev, lines 527-548: stat(dev_path) and the tests of the path
P_stat_dev(p) ==
    /\ callers[p].pc = "stat_dev"
    /\ LET dev_status == sys_stat(Quiet, last.path)
       IN callers' =
              IF \/ ~dev_status.ok \/ dev_status.node.kind # "chr"
                 \/ ~HasPrefix(last.path, NV_DEV_PATH)
              THEN [callers EXCEPT ![p].pc = "done", ![p].ret = 0]
              ELSE [callers EXCEPT ![p].pc = "remove_link",
                                   ![p].ino = dev_status.node.ino]
    /\ UNCHANGED <<fs, links>>

\* line 555: (void)remove(symlink_path)
P_remove_link(p) ==
    /\ callers[p].pc = "remove_link"
    /\ \E w \in sys_remove(Quiet, TheLinkPath, "unlink") :
          /\ links' = w.links
          /\ callers' = [callers EXCEPT ![p].pc = "symlink"]
    /\ UNCHANGED fs

\* line 557: symlink(dev_rel_path, symlink_path)
P_symlink(p) ==
    /\ callers[p].pc = "symlink"
    /\ \E w \in sys_symlink(Quiet, "../" \o StrFrom(last.path, Len(NV_DEV_PATH)),
                            TheLinkPath) :
          /\ links' = w.links
          /\ callers' = IF w.rc = 0
                        THEN [callers EXCEPT ![p].pc = "done", ![p].ret = 1]
                        ELSE [callers EXCEPT ![p].pc = "stat_link"]
    /\ UNCHANGED fs

\* lines 565-572: after a failed symlink, stat(symlink_path) and the
\* comparison of the inode numbers
P_stat_link(p) ==
    /\ callers[p].pc = "stat_link"
    /\ LET link_status == sys_stat(Quiet, TheLinkPath)
       IN callers' = [callers EXCEPT
              ![p].pc = "done",
              ![p].ret = IF ~link_status.ok \/ link_status.node.ino # callers[p].ino
                         THEN 0 ELSE 1]
    /\ UNCHANGED <<fs, links>>

NextConc ==
    /\ \E p \in DOMAIN callers :
          \/ P_get_file_state(p)
          \/ P_remove(p)
          \/ P_mknod(p)
          \/ P_chmod(p)
          \/ P_chown(p)
          \/ P_rollback(p)
          \/ P_stat_dev(p)
          \/ P_remove_link(p)
          \/ P_symlink(p)
          \/ P_stat_link(p)
    /\ UNCHANGED <<params, proc, last, prev>>
    /\ UNCHANGED loadVars
    /\ UNCHANGED calcVars
    /\ UNCHANGED mainVars

SpecConc == InitConc /\ [][NextConc]_vars

---------------------------------------------------------------------------
(* Properties of the reconciler.  They are stated over the last call: its   *)
(* arguments, the policy it read, the node and link it found, the syscalls  *)
(* it made (last.tr) and the filesystem it left.                            *)

NodeMutators == {"remove", "mknod", "chmod", "chown", "rollback"}
LinkMutators == {"unlink", "symlink"}

\* the call was made for the node the behaviour follows
ValidCall == last.called /\ last.minor \in DevMinors

\* the positions of the trace where op was called, and how it went
Called(tr, op) == \E i \in 1..Len(tr) : tr[i].op = op
Succeeded(tr, op) == \E i \in 1..Len(tr) : tr[i].op = op /\ tr[i].ok
Failed(tr, op) == \E i \in 1..Len(tr) : tr[i].op = op /\ ~tr[i].ok

CountOfOp(op) == Cardinality({i \in 1..Len(last.tr) : last.tr[i].op = op})
TouchedNode(tr) == \E i \in 1..Len(tr) : tr[i].op \in NodeMutators
OpsOf(tr) == [i \in 1..Len(tr) |-> tr[i].op]

\* the device number Linux decodes to (major, minor):
\* major = (dev >> 8) & 0xfff, minor = (dev & 0xff) | ((dev >> 12) & 0xfff00)
Encodes(rdev, major, minor) ==
    /\ (rdev \div 256) % 4096 = major
    /\ (rdev % 256) + 256 * (rdev \div 1048576) = minor

RightDevice(n, minor) ==
    n.kind = "chr" /\ Encodes(n.rdev, NV_MAJOR_DEVICE_NUMBER, minor)

\* the link at /dev/char/195:<minor> is a symbolic link whose contents are
\* the node's path relative to /dev/char
GoodLink(l, minor) ==
    /\ l.kind = "sym"
    /\ l.to = (IF minor = NV_CTL_DEVICE_NUM THEN "../nvidiactl"
               ELSE "../nvidia" \o ToString(minor))

\* the observed state s has all three flags set
AllFlags(s) ==
    /\ nvidia_test_file_state(s, NvDeviceFileStateFileExists)
    /\ nvidia_test_file_state(s, NvDeviceFileStateChrDevOk)
    /\ nvidia_test_file_state(s, NvDeviceFileStatePermissionsOk)

\* the policy's mode has permission bits only
ModeInMask(pol) == BitAndNot(pol.mode, NV_DEVICE_FILE_MODE_MASK) = 0

\* two successive calls for the same node, modification allowed, no syscall
\* made to fail in either
TwoCleanCalls ==
    /\ ValidCall /\ prev.called /\ prev.minor = last.minor
    /\ prev.pol = last.pol /\ last.pol.modify = 1
    /\ prev.clean /\ Clean(last.tr)

\* C1, as stated: after two successive clean calls the second returned
\* success and changed nothing in the filesystem, the /dev/char link included
\* (no successful remove, mknod, chmod, chown or symlink).
C1_SecondCallMutatesNothing ==
    TwoCleanCalls =>
        /\ last.ret = 1
        /\ \A i \in 1..Len(last.tr) :
              last.tr[i].op \in NodeMutators \cup LinkMutators => ~last.tr[i].ok

\* C1, amended: the first of two successive clean calls leaves the right
\* character device with the policy's permission bits and owner, and the second returns
\* success without remove or mknod and leaves the node as it was.  When the
\* policy's mode lies within 0777 the observed state has all three flags set
\* and the second call makes no chmod or chown either; otherwise it repeats
\* chmod and chown with the values already in place.  In both cases its
\* symlink step removes the /dev/char link and creates it again, so the link
\* ends as the first call left it.
C1_Idempotent ==
    TwoCleanCalls =>
        /\ prev.ret = 1
        /\ RightDevice(last.before, last.minor)
        /\ BitAnd(last.before.mode, NV_DEVICE_FILE_MODE_MASK) =
              BitAnd(last.pol.mode, NV_DEVICE_FILE_MODE_MASK)
        /\ last.before.uid = last.pol.uid /\ last.before.gid = last.pol.gid
        /\ last.ret = 1
        /\ fs[last.path] = last.before
        /\ ModeInMask(last.pol) <=>
              AllFlags(get_file_state_helper(World(fs, links), last.path,
                                             NV_MAJOR_DEVICE_NUMBER, last.minor,
                                             last.pol.uid, last.pol.gid, last.pol.mode))
        /\ OpsOf(last.tr) =
              (IF ModeInMask(last.pol) THEN <<>> ELSE <<"chmod", "chown">>)
              \o <<"symlink_char_dev", "unlink", "symlink">>
        /\ \A i \in 1..Len(last.tr) : last.tr[i].ok
        /\ GoodLink(last.linkBefore, last.minor)
        /\ links[TheLinkPath] = last.linkBefore

\* a second clean call under a policy that is not the default one
C1_Witness ==
    /\ TwoCleanCalls /\ ModeInMask(last.pol)
    /\ last.pol # DefaultPolicy
    /\ last.ret = 1 /\ Succeeded(last.tr, "symlink")

\* chmod or chown of the last call failed
PermFixFailed == Failed(last.tr, "chmod") \/ Failed(last.tr, "chown")

\* the node was there before the call with the right type and device number
PreExisting == last.before.kind = "chr"
               /\ last.before.rdev = NV_MAKE_DEVICE(NV_MAJOR_DEVICE_NUMBER, last.minor)

\* C2, as stated: a node created by the call is gone after a failed chmod or
\* chown, and a node that was there before is still there with the mode, uid
\* and gid it had.
C2_RollbackAsStated ==
    ValidCall /\ PermFixFailed =>
        /\ last.ret = 0
        /\ Succeeded(last.tr, "mknod") => fs[last.path] = NoNode
        /\ (PreExisting /\ ~Called(last.tr, "mknod")) => fs[last.path] = last.before

\* C2, amended: after a failed chmod or chown the call returns failure; a
\* node the call created is then removed, and is gone unless that remove
\* (whose result is ignored) failed; a node that was there before is never
\* removed and keeps its type, device number, inode, uid and gid, and keeps
\* its mode when chmod failed, but has the policy's mode when chmod succeeded
\* and chown failed.
C2_Rollback ==
    ValidCall /\ PermFixFailed =>
        /\ last.ret = 0
        /\ ~Called(last.tr, "symlink_char_dev")
        /\ Succeeded(last.tr, "mknod") =>
              /\ last.tr[Len(last.tr)].op = "rollback"
              /\ last.tr[Len(last.tr)].ok <=> fs[last.path] = NoNode
        /\ (PreExisting /\ ~Called(last.tr, "mknod")) =>
              /\ ~Called(last.tr, "rollback") /\ ~Called(last.tr, "remove")
              /\ Failed(last.tr, "chmod") => fs[last.path] = last.before
              /\ Failed(last.tr, "chown") =>
                    fs[last.path] = [last.before EXCEPT !.mode = last.pol.mode % 4096]

\* a node that was there with another mode: chmod succeeded, chown failed
C2_Witness ==
    /\ ValidCall /\ PreExisting /\ ~Called(last.tr, "mknod")
    /\ Succeeded(last.tr, "chmod") /\ Failed(last.tr, "chown")
    /\ last.before.mode # last.pol.mode
    /\ last.ret = 0

\* C3: when the policy read says modification is not allowed (modify = 0),
\* the call makes no mknod, remove, chmod or chown and leaves the node as it
\* found it, whatever state that was; it runs the symlink step and nothing else.
C3_HandsOff ==
    ValidCall /\ last.pol.modify = 0 =>
        /\ ~TouchedNode(last.tr)
        /\ fs[last.path] = last.before
        /\ Len(last.tr) >= 1 /\ last.tr[1].op = "symlink_char_dev"
        /\ \A i \in 2..Len(last.tr) : last.tr[i].op \in LinkMutators

\* modification not allowed and a node of the wrong type at the path
C3_Witness ==
    /\ ValidCall /\ last.pol.modify = 0
    /\ last.before.kind = "reg"
    /\ fs[last.path] = last.before

\* the path held something that is not the requested character device
Conflict == last.before.kind # "none" /\ ~PreExisting

\* C4: with modification allowed and something else at the path, the call
\* first removes it; if the removal fails it returns failure at once, having
\* called neither mknod nor chmod nor chown; if remove, mknod, chmod, chown and
\* symlink all succeed it returns success and the path is the requested
\* character device with the policy's mode and owner, linked from /dev/char.
C4_ReplaceOnConflict ==
    ValidCall /\ last.pol.modify = 1 /\ Conflict =>
        /\ Len(last.tr) >= 1 /\ last.tr[1].op = "remove"
        /\ ~last.tr[1].ok =>
              /\ last.ret = 0
              /\ Len(last.tr) = 1
              /\ fs[last.path] = last.before
        /\ (\A op \in {"remove", "mknod", "chmod", "chown", "symlink"} :
                Succeeded(last.tr, op)) =>
              /\ last.ret = 1
              /\ SelectSeq(OpsOf(last.tr), LAMBDA o : o # "unlink") =
                    <<"remove", "mknod", "chmod", "chown", "symlink_char_dev", "symlink">>
              /\ RightDevice(fs[last.path], last.minor)
              /\ fs[last.path].mode = last.pol.mode % 4096
              /\ fs[last.path].uid = last.pol.uid
              /\ fs[last.path].gid = last.pol.gid
              /\ GoodLink(links[TheLinkPath], last.minor)

\* a regular file was replaced by the device
C4_Witness ==
    /\ ValidCall /\ last.pol.modify = 1
    /\ last.before.kind = "reg"
    /\ last.ret = 1
    /\ RightDevice(fs[last.path], last.minor)

\* C5: with the node absent, the default policy in force and no syscall made
\* to fail, nvidia_mknod(m) returns success and leaves a character device
\* whose number decodes to (195, m), with mode 0666 and owner 0:0 whatever the
\* umask and the caller's group, and /dev/char/195:m as a relative symbolic
\* link to it.
C5_CreateFromAbsent ==
    (/\ ValidCall /\ last.before = NoNode
     /\ last.pol = DefaultPolicy /\ Clean(last.tr)) =>
        /\ last.ret = 1
        /\ Succeeded(last.tr, "mknod")
        /\ RightDevice(fs[last.path], last.minor)
        /\ fs[last.path].mode = 438
        /\ fs[last.path].uid = 0 /\ fs[last.path].gid = 0
        /\ GoodLink(links[TheLinkPath], last.minor)
        /\ sys_stat(World(fs, links), TheLinkPath).node = fs[last.path]

\* created under umask 022 by a caller of group 1000, the control node
C5_Witness ==
    /\ ValidCall /\ last.before = NoNode
    /\ last.pol = DefaultPolicy /\ Clean(last.tr)
    /\ last.minor = NV_CTL_DEVICE_NUM
    /\ proc.umask = 18 /\ proc.egid = 1000
    /\ last.ret = 1

---------------------------------------------------------------------------
(* Properties of the loader.  They are stated over the running or finished  *)
(* call (lm), the steps it has taken (events), the module table it found    *)
(* at its entry (lm.entryTab) and the one it read last (lm.readTab).        *)

InCall == lm.pc # "idle"
Returned == lm.pc = "done"
Has(e) == \E i \in 1..Len(events) : events[i] = e
CountOf(e) == Cardinality({i \in 1..Len(events) : events[i] = e})

\* the module is listed: some line's name is the queried one, '-' and '_'
\* taken as the same character
Canon(ch) == IF ch = "-" THEN "_" ELSE ch
SameName(a, b) ==
    /\ Len(a) = Len(b)
    /\ \A k \in 1..Len(a) : Canon(SubSeq(a, k, k)) = Canon(SubSeq(b, k, k))
Present(lines, name) == \E i \in 1..Len(lines) : SameName(lines[i], name)

\* the call reached fork(), whether fork succeeded or not
SpawnAttempted == Has("fork") \/ Has("fork_failed")

IsRoot == host.euid = 0
\* the file at the resolved loader path is a regular file with bit 0100 set
LoaderOk ==
    LET f == StatFile(host.files, ResolveModprobePath(host.modpath))
    IN f.kind = "reg" /\ (f.mode \div 64) % 2 = 1

\* C6: whenever the call spawned a loader child, it returns success if and
\* only if the module is listed in the module table read after the child
\* finished, whatever the child's exit status and whatever waitpid returned.
C6_GroundTruth ==
    Returned /\ Has("fork") =>
        /\ child.state = "exited"
        /\ lm.ret \in {0, 1}
        /\ lm.ret = 1 <=> Present(lm.readTab, lm.name)

\* the child exited nonzero and waitpid failed, yet the call succeeded
C6_Witness ==
    /\ Returned /\ Has("fork")
    /\ child.status = 1 /\ lm.wait = -1
    /\ lm.ret = 1

\* C7, as stated: the loader is forked only when the caller is root and the
\* resolved loader path is a regular file the owner may execute; in every
\* other case the call returns failure without forking.
C7_ExecGatingAsStated ==
    InCall =>
        /\ SpawnAttempted => IsRoot /\ LoaderOk
        /\ ~(IsRoot /\ LoaderOk) => Returned /\ lm.ret = 0 /\ ~SpawnAttempted

\* C7, amended: the loader is forked only when the caller is root and the
\* resolved loader path is a regular file the owner may execute; in every
\* other case the call returns without forking, with failure unless the
\* module was already listed when the call began (then with success).  In
\* particular a non-root caller with the module not loaded and no matching
\* PCI device gets failure and no fork.
C7_ExecGating ==
    InCall =>
        /\ SpawnAttempted => IsRoot /\ LoaderOk
        /\ ~(IsRoot /\ LoaderOk) =>
              /\ Returned /\ ~SpawnAttempted /\ child = NoChild
              /\ lm.ret = (IF Present(lm.entryTab, lm.name) THEN 1 ELSE 0)

\* root, the loader file is there without the owner's execute bit: the call
\* went as far as stat and returned failure
C7_Witness ==
    /\ Returned /\ IsRoot /\ Has("stat")
    /\ StatFile(host.files, lm.path).kind = "reg" /\ ~LoaderOk
    /\ lm.ret = 0 /\ ~SpawnAttempted

\* the call stopped at the hardware check / went on to the privilege check
StoppedAtHardware == Returned /\ lm.ret = 0 /\ ~Has("geteuid")
Proceeded == Has("geteuid")

\* the platform reads as Tegra
TegraDetected ==
    host.soc.present /\ Len(host.soc.text) >= 5 /\ SubSeq(host.soc.text, 1, 5) = "Tegra"

\* every device's config space reads in full / some device is an NVIDIA
\* display controller
AllReadable == \A i \in 1..Len(host.pci.devs) : host.pci.devs[i].cfg = "ok"
SomeNvidiaDisplay ==
    \E i \in 1..Len(host.pci.devs) :
        /\ host.pci.devs[i].vendor_id = NV_PCI_VENDOR_ID
        /\ host.pci.devs[i].device_class \div 256 = 3

\* C8: with the module not loaded, the call stops at the hardware check
\* (failure, no fork) exactly when the oracle finished without error and
\* counted no matching device and (the Tegra allowance is not set or the
\* platform is not Tegra).  With an oracle error, a missing bus directory, a
\* matching device, or the allowance on a Tegra, it goes on to the
\* privilege check.
C8_HardwareGating ==
    InCall /\ ~Present(lm.entryTab, lm.name) =>
        /\ StoppedAtHardware <=>
              /\ lm.status = 0 /\ lm.num_matches = 0
              /\ ~lm.allow \/ ~TegraDetected
        /\ StoppedAtHardware \/ Proceeded
        /\ StoppedAtHardware => ~SpawnAttempted /\ child = NoChild
        /\ host.pci.dir # "ok" => lm.status # 0 /\ Proceeded
        /\ ~AllReadable /\ lm.status # 0 => Proceeded
        /\ (host.pci.dir = "ok" /\ AllReadable) =>
              /\ lm.status = 0
              /\ lm.num_matches >= 1 <=> SomeNvidiaDisplay
              /\ SomeNvidiaDisplay => Proceeded
        /\ (lm.allow /\ TegraDetected) => Proceeded

\* fail-open: the oracle reported an error and the call went on to fork
C8_Witness ==
    /\ InCall /\ ~Present(lm.entryTab, lm.name)
    /\ lm.status # 0 /\ lm.num_matches = 0
    /\ host.pci.dir = "ok"
    /\ Has("fork")

\* C9: if the module is already listed, the call returns success at once for
\* any caller, without the PCI oracle, without resolving or checking the
\* loader and without a child.
C9_AlreadyLoaded ==
    InCall /\ Present(lm.entryTab, lm.name) =>
        /\ Returned /\ lm.ret = 1
        /\ events = <<"is_kernel_module_loaded", "return">>
        /\ lm.path = "" /\ lm.tegra = "unasked"
        /\ child = NoChild

\* a non-root caller, nvidia-modeset listed as nvidia_modeset
C9_Witness ==
    /\ InCall /\ Present(lm.entryTab, lm.name)
    /\ lm.name = NV_MODESET_MODULE_NAME
    /\ ~IsRoot /\ host.pci.dir = "missing"
    /\ lm.ret = 1

\* the position of the first event e, or 0
FirstPos(e) ==
    IF Has(e) THEN CHOOSE i \in 1..Len(events) :
                      events[i] = e /\ \A j \in 1..(i - 1) : events[j] # e
    ELSE 0
IsPrefix(a, b) == Len(a) <= Len(b) /\ a = SubSeq(b, 1, Len(a))

\* C10: a call spawns at most one child and never tries again; it spawns
\* exactly one when the module is not loaded, the hardware, privilege and
\* loader checks pass and fork succeeds; and from the spawn on the order is
\* spawn, child termination, waitpid's return, re-query, return.
C10_OneChildOrdered ==
    /\ CountOf("fork") + CountOf("fork_failed") <= 1
    /\ (InCall /\ ~Present(lm.entryTab, lm.name) /\ Proceeded /\ IsRoot /\ LoaderOk) =>
          CountOf("fork") + CountOf("fork_failed") = 1
    /\ Has("fork") =>
          /\ child.state \in {"running", "exited"}
          /\ IsPrefix(SubSeq(events, FirstPos("fork"), Len(events)),
                      <<"fork", "child_exit", "waitpid", "is_kernel_module_loaded",
                        "return">>)
          /\ Has("waitpid") => child.state = "exited"
          /\ Returned <=> Has("return")
    /\ ~Has("fork") => child = NoChild

\* a call that went all the way: forked, waited, read the table, returned
C10_Witness ==
    /\ Returned /\ Has("fork") /\ Has("child_exit") /\ Has("waitpid")
    /\ events[Len(events)] = "return"
    /\ lm.ret = 0

---------------------------------------------------------------------------
(* Properties of the symlink step, over the last nvidia_mknod call.         *)

\* where the symlink step starts in the last call's trace, or 0
StepStart ==
    IF Called(last.tr, "symlink_char_dev")
    THEN CHOOSE i \in 1..Len(last.tr) : last.tr[i].op = "symlink_char_dev"
    ELSE 0
\* what the step did after its checks
StepOps == SubSeq(OpsOf(last.tr), StepStart + 1, Len(last.tr))

\* the link is there and stat through it finds the inode number of the node
LinkLeadsToNode ==
    LET ls == sys_stat(World(fs, links), TheLinkPath)
    IN ls.ok /\ ls.node.ino = fs[last.path].ino

\* the result the symlink step has by the rule of its comment: nothing when
\* the node is no character device; else success when symlink() succeeded
\* or the link there leads to the node
StepResult ==
    IF fs[last.path].kind # "chr" THEN 0
    ELSE IF Succeeded(last.tr, "symlink") \/ LinkLeadsToNode THEN 1
    ELSE 0

\* remove, mknod, chmod or chown failed in the last call
NodeStepFailed ==
    \E op \in {"remove", "mknod", "chmod", "chown"} : Failed(last.tr, op)

LinkIsToNode ==
    /\ links[TheLinkPath].kind = "sym"
    /\ LinkTargetPath(links[TheLinkPath].to) = last.path
    /\ fs[last.path].kind # "none"

\* C13: for a character device under /dev/, the step first removes what is
\* at /dev/char/<major>:<minor>, whatever comes of it, then creates the
\* relative link; it succeeds when the creation succeeds, or when it fails
\* but a link is there that resolves to the target device, and fails when
\* the link is missing or resolves elsewhere and cannot be created.
C13_SymlinkOutcome ==
    (ValidCall /\ StepStart > 0 /\ fs[last.path].kind = "chr") =>
        /\ StepOps = <<"unlink", "symlink">>
        /\ Succeeded(last.tr, "symlink") => last.ret = 1
        /\ (Failed(last.tr, "symlink") /\ LinkIsToNode) => last.ret = 1
        /\ (Failed(last.tr, "symlink") /\ ~LinkIsToNode) => last.ret = 0

---------------------------------------------------------------------------
(* Properties of the registry comparison *)

Evaluated(fn) == calc.fn = fn /\ calc.done

\* C14: whether a module counts as loaded does not depend on how the
\* queried name spells '-' and '_': for any table, two queried names that
\* differ only in those characters get the same answer, whichever spelling
\* the table uses; in particular "nvidia_uvm" and "nvidia-uvm" do.
C14_SpellingInsensitive ==
    Evaluated("is_kernel_module_loaded") =>
        /\ \A n \in QueriedNames :
              SameName(n, calc.name) =>
                 is_kernel_module_loaded(calc.t, n) = calc.out
        /\ is_kernel_module_loaded(calc.t, "nvidia_uvm")
              = is_kernel_module_loaded(calc.t, "nvidia-uvm")
        /\ calc.t.readable =>
              (calc.out <=> \E i \in 1..Len(calc.t.lines) :
                              SameName(ScanModuleName(calc.t.lines[i]), calc.name))

C14_Witness ==
    /\ Evaluated("is_kernel_module_loaded")
    /\ calc.t.lines = <<"nvidia", "nvidia_uvm">>
    /\ calc.name = "nvidia-uvm"
    /\ calc.out

---------------------------------------------------------------------------
(* Properties of the major-number lookup *)

\* the device name of a /proc/devices line: what follows its last blank
RECURSIVE LastBlank(_, _)
LastBlank(line, i) == IF i = 0 \/ CharAt(line, i) = " " THEN i ELSE LastBlank(line, i - 1)
LineName(line) == SubSeq(line, LastBlank(line, Len(line)) + 1, Len(line) - 1)

\* the line is for a longer name that starts with the queried one
LongerName(line, name) ==
    /\ Len(LineName(line)) > Len(name)
    /\ SubSeq(LineName(line), 1, Len(name)) = name

\* C15: a line for a longer name that merely starts with the queried name
\* does not satisfy the lookup: a result other than -1 is the number of a
\* line that is not for such a longer name and ends in the queried name,
\* and a table in which every line naming the device is for such a longer
\* name yields -1.
C15_NoPrefixMatch ==
    Evaluated("nvidia_get_chardev_major") =>
        /\ calc.out # -1 =>
              \E i \in 1..Len(calc.f.lines) :
                 /\ ~LongerName(calc.f.lines[i], calc.name)
                 /\ Len(LineName(calc.f.lines[i])) >= Len(calc.name)
                 /\ StrFrom(LineName(calc.f.lines[i]),
                            Len(LineName(calc.f.lines[i])) - Len(calc.name)) = calc.name
                 /\ sscanf_major(calc.f.lines[i]) = [n |-> 1, major |-> calc.out]
        /\ (\A i \in 1..Len(calc.f.lines) :
               strstr(calc.f.lines[i], calc.name) > 0 => LongerName(calc.f.lines[i], calc.name))
              => calc.out = -1

C15_Witness ==
    /\ Evaluated("nvidia_get_chardev_major")
    /\ calc.f.lines = <<"Character devices:\n", "  1 mem\n", "195 nvidia-uvm\n">>
    /\ calc.name = "nvidia"
    /\ calc.out = -1

---------------------------------------------------------------------------
(* Properties of the permission policy reader *)

\* C16: with a NULL or empty source path, or a source that cannot be
\* opened, the policy is exactly uid 0, gid 0, mode 0666 and modification
\* allowed; the function has no way to report an error.
C16_DefaultFallback ==
    (/\ Evaluated("init_device_file_parameters")
     /\ calc.proc_path \in {NullPath, ""} \/ ~calc.src.readable)
        => calc.out = [uid |-> 0, gid |-> 0, mode |-> 438, modify |-> 1]

C16_Witness ==
    /\ Evaluated("init_device_file_parameters")
    /\ calc.proc_path = ""
    /\ calc.src = Source(<<KV("DeviceFileUID", 1000), KV("ModifyDeviceFiles", 0)>>)
    /\ calc.out = [uid |-> 0, gid |-> 0, mode |-> 438, modify |-> 1]

Items == calc.src.items
FieldNames(f) ==
    CASE f = "uid" -> {"DeviceFileUID"}
      [] f = "gid" -> {"DeviceFileGID"}
      [] f = "mode" -> {"DeviceFileMode"}
      [] f = "modify" -> {"ModifyDeviceFiles", "DeviceFileModify"}
DefaultOf(f) == IF f = "mode" THEN 438 ELSE IF f = "modify" THEN 1 ELSE 0
SourceRead ==
    /\ Evaluated("init_device_file_parameters")
    /\ calc.proc_path = NV_PROC_REGISTRY_PATH
    /\ calc.src.readable

\* the value of field f after the lines in the set among of positions:
\* the last of them that names f, or the default
ValueAfter(f, among) ==
    LET at == {i \in among : Items[i].form = "kv" /\ Items[i].name \in FieldNames(f)}
    IN IF at = {} THEN DefaultOf(f)
       ELSE Items[CHOOSE i \in at : \A j \in at : j <= i].value

\* the characters the scan has in hand as the name when it reaches item i:
\* the item's own, after those of the colon-less lines just before it
RECURSIVE JoinedLen(_)
JoinedLen(i) ==
    Len(Items[i].name)
      + (IF i > 1 /\ Items[i - 1].form = "nocolon" THEN JoinedLen(i - 1) + 1 ELSE 0)

\* item i ends the scan: its value is no number, or its name does not fit
EndsScan(i) ==
    /\ Items[i].form # "nocolon"
    /\ Items[i].form = "nonnum" \/ JoinedLen(i) > 31

\* item i is applied as a "<name>: <unsigned>" line of its own
AppliedLines ==
    {i \in 1..Len(Items) :
        /\ Items[i].form = "kv"
        /\ \A j \in 1..i : ~EndsScan(j)
        /\ i = 1 \/ Items[i - 1].form # "nocolon"}

\* C17 as stated: every line that is not "<recognized field>: <unsigned>"
\* is ignored and never keeps a later recognized line from being applied.
C17_OtherLinesIgnored ==
    SourceRead =>
        \A f \in {"uid", "gid", "mode", "modify"} :
            calc.out[f] = ValueAfter(f, 1..Len(Items))

\* C17: a "<recognized field>: <unsigned>" line sets its field and a
\* "<other name>: <unsigned>" line changes nothing, as long as the scan gets
\* to it: the scan ends at the first line whose value is no unsigned
\* number or whose name is longer than 31 characters, and a line without a
\* colon is read as the beginning of the next line's name, which is
\* therefore not recognized.  Fields set by no applied line keep their
\* defaults.
C17_Parsing ==
    SourceRead =>
        \A f \in {"uid", "gid", "mode", "modify"} :
            calc.out[f] = ValueAfter(f, AppliedLines)

C17_Witness ==
    /\ SourceRead
    /\ Items = <<KV("ResmanDebugLevel", 255), KV("DeviceFileModify", 2),
                 NonNum("RegistryDwords")>>
    /\ calc.out = [uid |-> 0, gid |-> 0, mode |-> 438, modify |-> 2]

---------------------------------------------------------------------------
(* Properties of the device path builders *)

\* the identifier is negative, or above the maximum the feature has
OutOfRange(feature, id) ==
    \/ id < 0
    \/ feature = "nvidia" /\ id > NV_CTL_DEVICE_NUM
    \/ feature = "nvswitch" /\ id > NV_NVSWITCH_CTL_MINOR

\* C18: every device-path builder turns an out-of-range identifier into an
\* empty path, the create operation for it fails, and no node or link is
\* made for it.
C18_BuildersValidate ==
    (Evaluated("mknod") /\ OutOfRange(calc.feature, calc.id)) =>
        /\ calc.name = ""
        /\ calc.out = [ret |-> 0, made |-> FALSE, linked |-> FALSE]

---------------------------------------------------------------------------
(* Properties of the hardware presence count *)

\* the bus devices whose configuration header was read in full and that
\* meet every criterion that is no wildcard, and the class under the mask
MatchingDevices ==
    {i \in 1..Len(calc.bus.devs) :
        LET d == calc.bus.devs[i]
        IN /\ d.cfg = "ok"
           /\ \A f \in {"vendor_id", "device_id", "subvendor_id", "subdevice_id"} :
                 calc.match[f] = -1 \/ calc.match[f] = d[f]
           /\ BitAnd(d.device_class, calc.match.device_class_mask)
                 = calc.match.device_class}

---------------------------------------------------------------------------
(* Properties of the device number *)

\* (minor mod 256) + major * 2^8 + (minor div 256) * 2^20 as a dev_t
Packed(major, minor) ==
    [upper |-> 0,
     bit31 |-> (minor \div 256) \div 2048,
     low31 |-> (minor % 256) + major * 256 + ((minor \div 256) % 2048) * 1048576]

\* C20: for 0 <= major < 4096 and 0 <= minor < 2^20 the device number is
\* (minor mod 256) + major * 2^8 + (minor div 256) * 2^20, from which major
\* and minor are read back.
C20_Packing ==
    Evaluated("NV_MAKE_DEVICE") =>
        /\ calc.out = Packed(calc.major, calc.minor)
        /\ calc.out.upper = 0
        /\ (calc.out.low31 \div 256) % 4096 = calc.major
        /\ (calc.out.low31 % 256)
             + ((calc.out.low31 \div 1048576) + 2048 * calc.out.bit31) * 256 = calc.minor

---------------------------------------------------------------------------
(* Properties of the exit code *)

Exited == run.pos.sec = "exited"
Calls == [k \in 1..Len(run.log) |-> run.log[k].call]
CarriedOut(c) == \E k \in 1..Len(run.log) : run.log[k] = [call |-> c, ret |-> 1]
NodeCalls(fn, o) == {Call(fn, o.minors[k]) : k \in 1..Len(o.minors)}
When(b, S) == IF b THEN S ELSE {}

\* the calls of the features that do not exclude each other
CommonCalls(o) ==
    When(o.modeset, {Call("nvidia_modeset_modprobe", 0), Call("nvidia_modeset_mknod", 0)})
    \cup {Call("nvidia_cap_mknod", k) : k \in 0..(o.num_cap_files - 1)}
    \cup {Call("nvidia_cap_imex_channel_mknod", o.imex_channel_minor_start + k) :
             k \in 0..(o.imex_channel_minors - 1)}

\* everything the command line asks for, each flag taken for itself
RequestedCalls(o) ==
    When(o.nvlink, {Call("nvidia_modprobe", 0), Call("nvidia_nvlink_mknod", 0)})
    \cup When(o.nvswitch, {Call("nvidia_modprobe", 0)} \cup NodeCalls("nvidia_nvswitch_mknod", o))
    \cup When(o.uvm_modprobe, {Call("nvidia_uvm_modprobe", 0)} \cup NodeCalls("nvidia_uvm_mknod", o))
    \cup When(o.enable_auto_online_movable, {Call("nvidia_enable_auto_online_movable", 0)})
    \cup When(~o.nvlink /\ ~o.nvswitch /\ ~o.uvm_modprobe /\ ~o.enable_auto_online_movable,
              {Call("nvidia_modprobe", 0)} \cup NodeCalls("nvidia_mknod", o))
    \cup CommonCalls(o)

\* what is asked for once the one mode is chosen: NVLink before NVSwitch
\* before unified memory before auto-onlining before the base module
SelectedCalls(o) ==
    (IF o.nvlink THEN {Call("nvidia_modprobe", 0), Call("nvidia_nvlink_mknod", 0)}
     ELSE IF o.nvswitch
          THEN {Call("nvidia_modprobe", 0)} \cup NodeCalls("nvidia_nvswitch_mknod", o)
     ELSE IF o.uvm_modprobe
          THEN {Call("nvidia_uvm_modprobe", 0)} \cup NodeCalls("nvidia_uvm_mknod", o)
     ELSE IF o.enable_auto_online_movable
          THEN {Call("nvidia_enable_auto_online_movable", 0)}
     ELSE {Call("nvidia_modprobe", 0)} \cup NodeCalls("nvidia_mknod", o))
    \cup CommonCalls(o)

\* a failed call is the last one made
StopsAtFailure == \A k \in 1..(Len(run.log) - 1) : run.log[k].ret = 1

---------------------------------------------------------------------------
(* Properties of long module names *)

---------------------------------------------------------------------------
(* Further properties of the reconciler *)

\* C22: when the policy does not allow modification the call returns
\* success, whatever is at the path, a missing node included.
C22_HandsOffSucceeds ==
    (ValidCall /\ last.pol.modify # 1) => last.ret = 1

\* the node was the requested device before the call, with a mode, owner or
\* group other than the policy's, and the policy allows modification
PermissionsOnly ==
    /\ ValidCall /\ last.pol.modify = 1 /\ PreExisting
    /\ \/ BitAnd(last.before.mode, NV_DEVICE_FILE_MODE_MASK) # last.pol.mode
       \/ last.before.uid # last.pol.uid
       \/ last.before.gid # last.pol.gid

\* C23: a call that finds the requested device with other permissions calls
\* neither remove nor mknod; it calls chmod, after a successful chmod chown,
\* and after both the symlink step; the node keeps its inode, type and device
\* number, and after chmod and chown it has the policy's owner and group.
C23_PermissionOnlyFix ==
    PermissionsOnly =>
        /\ \A op \in {"remove", "mknod", "rollback"} : ~Called(last.tr, op)
        /\ fs[last.path].ino = last.before.ino
        /\ fs[last.path].kind = "chr"
        /\ fs[last.path].rdev = last.before.rdev
        /\ Len(last.tr) >= 1 /\ last.tr[1].op = "chmod"
        /\ last.tr[1].ok => (Len(last.tr) >= 2 /\ last.tr[2].op = "chown")
        /\ ~last.tr[1].ok => (Len(last.tr) = 1 /\ last.ret = 0)
        /\ (last.tr[1].ok /\ last.tr[2].ok) =>
              /\ Len(last.tr) >= 3 /\ last.tr[3].op = "symlink_char_dev"
              /\ fs[last.path].uid = last.pol.uid
              /\ fs[last.path].gid = last.pol.gid
        /\ (last.tr[1].ok /\ ~last.tr[2].ok) => (Len(last.tr) = 2 /\ last.ret = 0)

C23_Witness ==
    /\ PermissionsOnly /\ Clean(last.tr)
    /\ last.before.uid # last.pol.uid
    /\ Succeeded(last.tr, "chmod") /\ Succeeded(last.tr, "chown")
    /\ Called(last.tr, "symlink_char_dev")
    /\ fs[last.path].ino = last.before.ino
    /\ last.ret = 1

---------------------------------------------------------------------------
(* Further properties of the /proc/devices lookup *)

\* the lines of the "Character devices:" section: after the header, before
\* the first empty line
SectionEnd(lines, i) ==
    IF \E j \in i..Len(lines) : lines[j] = "\n"
    THEN (CHOOSE j \in i..Len(lines) :
              lines[j] = "\n" /\ \A k \in i..(j - 1) : lines[k] # "\n") - 1
    ELSE Len(lines)
SectionLines(lines) ==
    LET s == SectionStart(lines, 1) + 1 IN s..SectionEnd(lines, s)
\* the lines of the section whose device name is exactly name
ExactLines(lines, name) == {i \in SectionLines(lines) : LineName(lines[i]) = name}

\* C24: the lookup returns the number of the first line of the section whose
\* name is exactly the queried name, and -1 when the section has no such line;
\* lines outside the section and lines whose name merely contains the queried
\* name never give a result.
C24_ExactNameInSection ==
    (Evaluated("nvidia_get_chardev_major") /\ calc.f.readable) =>
        LET exact == ExactLines(calc.f.lines, calc.name)
            first == CHOOSE i \in exact : \A j \in exact : i <= j
        IN IF exact = {} THEN calc.out = -1
           ELSE sscanf_major(calc.f.lines[first]).n = 1
                    => calc.out = sscanf_major(calc.f.lines[first]).major

---------------------------------------------------------------------------
(* Termination of the loader *)

\* C25: every call returns, given that its child comes to an end (a call
\* that forks no child has returned when it is seen); and no call that forked
\* a child has returned, or passed waitpid, while that child is running.
C25_ReturnsAfterChild ==
    /\ [](InCall => (Returned \/ Has("fork")))
    /\ [](Has("fork") /\ lm.pc \in {"reaped", "done"} => child.state = "exited")
    /\ (InCall ~> Returned)

C25_Witness ==
    /\ Returned /\ Has("fork") /\ Has("child_exit") /\ Has("waitpid")
    /\ child.state = "exited"
    /\ lm.ret = 0

---------------------------------------------------------------------------
(* What a successful call leaves behind *)

\* C26: after a call that returned success, under any policy, the path is a
\* character device with the requested device number and the link in
\* /dev/char leads to that node; if the policy allows modification the node
\* has the policy's mode, owner and group.
C26_SuccessMeansCorrect ==
    (ValidCall /\ last.ret = 1) =>
        /\ RightDevice(fs[last.path], last.minor)
        /\ LinkIsToNode
        /\ last.pol.modify = 1 =>
              /\ \/ fs[last.path].mode = last.pol.mode
                 \/ BitAnd(fs[last.path].mode, NV_DEVICE_FILE_MODE_MASK) = last.pol.mode
              /\ fs[last.path].uid = last.pol.uid
              /\ fs[last.path].gid = last.pol.gid

---------------------------------------------------------------------------
(* Create and query agree *)

\* C27: for each kind of device that has both operations, the file-state
\* query made right after a successful create reports all three flags.
C27_QueryAfterCreate ==
    (Evaluated("create_query") /\ calc.out.ret = 1) => AllFlags(calc.out.state)

---------------------------------------------------------------------------
(* The symlink step and a link that was right *)

\* C28: when the link led to the node before the symlink step, it still
\* exists and leads to the node after the step, whether the step succeeded
\* or failed and whichever of its remove and symlink calls failed.
C28_GoodLinkKept ==
    (/\ ValidCall /\ Called(last.tr, "symlink_char_dev")
     /\ last.before.kind = "chr" /\ ~Called(last.tr, "remove")
     /\ GoodLink(last.linkBefore, last.minor))
        => (GoodLink(links[TheLinkPath], last.minor) /\ LinkIsToNode)

---------------------------------------------------------------------------
(* The value of the modification switch *)

\* C30: the call makes a remove, mknod, chmod or chown only when the
\* policy's modify value is exactly 1; with any other value, 0 or 2 or
\* larger, it goes to the symlink step at once and the node is after the
\* call what it was before.
C30_OnlyOneAllows ==
    ValidCall =>
        /\ TouchedNode(last.tr) => last.pol.modify = 1
        /\ last.pol.modify # 1 =>
              /\ fs[last.path] = last.before
              /\ Len(last.tr) >= 1 /\ last.tr[1].op = "symlink_char_dev"

\* modify is 2 and the node lacks the policy's permissions
C30_Witness ==
    /\ ValidCall /\ last.pol.modify = 2
    /\ PreExisting /\ last.before.mode # last.pol.mode
    /\ last.tr[1].op = "symlink_char_dev"
    /\ fs[last.path] = last.before

---------------------------------------------------------------------------
(* Two processes at once *)

SomeSucceeded == \E p \in DOMAIN callers : callers[p].pc = "done" /\ callers[p].ret = 1
AllReturned == callers # NoCallers /\ \A p \in DOMAIN callers : callers[p].pc = "done"
AllSucceeded == AllReturned /\ \A p \in DOMAIN callers : callers[p].ret = 1
NodeRight == RightDevice(fs[last.path], last.minor)
NodeAndLinkRight ==
    /\ NodeRight
    /\ GoodLink(links[TheLinkPath], last.minor)
    /\ \/ fs[last.path].mode = last.pol.mode
       \/ BitAnd(fs[last.path].mode, NV_DEVICE_FILE_MODE_MASK) = last.pol.mode
    /\ fs[last.path].uid = last.pol.uid
    /\ fs[last.path].gid = last.pol.gid
\* the two began with the path empty or holding the requested device
NothingToRemove == last.before = NoNode \/ PreExisting

\* C29, as stated: once one of the two has returned success the node is the
\* requested character device in every later state, and once both have
\* returned the node and the link are right.
C29_ConcurrentAsStated ==
    /\ SomeSucceeded => NodeRight
    /\ AllReturned => NodeAndLinkRight

\* C29, amended: when the two begin with the path empty or holding the
\* requested device, then once one of them has returned success the node is
\* the requested character device in every later state, and once both have
\* returned the node and the link are right.  When they begin with something
\* else at the path, the node and the link are right once both have returned
\* success; short of that a process may remove the node the other has made,
\* also after the other has returned success.
C29_Concurrent ==
    /\ NothingToRemove =>
          /\ SomeSucceeded => NodeRight
          /\ AllReturned => NodeAndLinkRight
    /\ AllSucceeded => NodeAndLinkRight

\* both saw the path empty; one made the node, the other's mknod found it
C29_Witness ==
    /\ AllReturned /\ last.before = NoNode
    /\ callers["first"].ret = 1 /\ callers["first"].do_mknod = 1
    /\ callers["second"].ret = 0 /\ callers["second"].do_mknod = 1
    /\ NodeAndLinkRight

============================================================================
